---- MODULE Spec2Model ----
(***************************************************************************)
(* A model of SchoolNet 360 (src/app.py, src/models.py,                    *)
(* src/utils/bulk_importer.py): the tables of the database, the SQLAlchemy *)
(* session of a running bulk import, and the request handlers that write   *)
(* to them.                                                                *)
(*                                                                         *)
(* Text is modelled as a sequence of one-character strings, so that        *)
(* str.strip(), str.lower(), str.split('@') and the f-string formatting of *)
(* an admission number are computed the way Python computes them.          *)
(***************************************************************************)
EXTENDS Integers, Sequences, FiniteSets, TLC

\* ------------------------------------------------------------------ bounds
\* Longest spreadsheet a bulk import reads (data rows).
MaxRows == 2
\* Number of write requests (imports and single creations) in one behaviour.
MaxRequests == 2
\* Longest batch of attendance entries in one post.
MaxEntries == 2
\* Number of times a link code is requested for one student.
MaxIssues == 2

\* ------------------------------------------------------------------ text
Digits == <<"0", "1", "2", "3", "4", "5", "6", "7", "8", "9">>

RECURSIVE IntToStr(_)
\* str(n) for a natural number n: its decimal digits.
IntToStr(n) ==
    IF n < 10 THEN <<Digits[n + 1]>>
    ELSE IntToStr(n \div 10) \o <<Digits[(n % 10) + 1]>>

RECURSIVE Zeros(_)
Zeros(k) == IF k <= 0 THEN <<>> ELSE <<"0">> \o Zeros(k - 1)

\* The format spec ":05d": zero-padded to a MINIMUM width of five.
Format05d(n) == Zeros(5 - Len(IntToStr(n))) \o IntToStr(n)

\* s[-2:]
LastTwo(s) == IF Len(s) <= 2 THEN s ELSE SubSeq(s, Len(s) - 1, Len(s))

RECURSIVE LStrip(_)
LStrip(s) == IF s # <<>> /\ Head(s) = " " THEN LStrip(Tail(s)) ELSE s

RECURSIVE RStrip(_)
RStrip(s) ==
    IF s # <<>> /\ s[Len(s)] = " " THEN RStrip(SubSeq(s, 1, Len(s) - 1)) ELSE s

\* str.strip()
Strip(s) == RStrip(LStrip(s))

LowerOf(c) ==
    CASE c = "A" -> "a" [] c = "B" -> "b" [] c = "C" -> "c" [] c = "D" -> "d"
      [] c = "G" -> "g" [] c = "H" -> "h" [] c = "M" -> "m" [] c = "S" -> "s"
      [] c = "T" -> "t" [] OTHER -> c

\* str.lower()
Lower(s) == [i \in 1..Len(s) |-> LowerOf(s[i])]

RECURSIVE BeforeFirst(_, _)
\* s.split(ch)[0]
BeforeFirst(s, ch) ==
    IF s = <<>> \/ Head(s) = ch THEN <<>>
    ELSE <<Head(s)>> \o BeforeFirst(Tail(s), ch)

\* ------------------------------------------------------------------ cells
\* A spreadsheet cell as pandas hands it over: NaN for an empty cell,
\* otherwise a value (text, or a number in a numeric column).
Cell(v) == [nan |-> FALSE, v |-> v]
NaNText == [nan |-> TRUE, v |-> <<"n", "a", "n">>]

\* pd.isna(cell)
IsNa(c) == c.nan

\* str(cell) of a text cell; str(float('nan')) is "nan".
StrOf(c) == c.v

\* ------------------------------------------------------------------ helpers
\* The grading scale with the pass mark excluded from band D.
calculate_grade_letterAbove50(marks) ==
    IF marks >= 90 THEN "A+"
    ELSE IF marks >= 80 THEN "A"
    ELSE IF marks >= 70 THEN "B"
    ELSE IF marks >= 60 THEN "C"
    ELSE IF marks > 50 THEN "D"
    ELSE "F"

\* app.py: calculate_grade_letter; the letters are the values of GradeLetter.
calculate_grade_letter(marks) ==
    IF marks >= 90 THEN "A+"
    ELSE IF marks >= 80 THEN "A"
    ELSE IF marks >= 70 THEN "B"
    ELSE IF marks >= 60 THEN "C"
    ELSE IF marks >= 50 THEN "D"
    ELSE "F"

\* app.py: generate_admission_number
generate_admission_number(school_code_base, student_id, year_str) ==
    school_code_base \o <<"/">> \o Format05d(student_id) \o <<"/">> \o year_str

Max(S) == IF S = {} THEN 0 ELSE CHOOSE x \in S : \A y \in S : y <= x

\* The primary key an INSERT into a table holding `rows` receives.
NextId(rows) == Max({r.id : r \in rows}) + 1

\* ------------------------------------------------------------------ state
VARIABLES
    schools,        \* table school: [id, school_code]
    users,          \* table user: [id, username, role, school_id]
    students,       \* table student
    teachers,       \* table teacher: [id, user_id, school_id]
    parents,        \* table parent:  [id, user_id, school_id]
    subjects,       \* table subject: [id, name, school_id]
    grades,         \* table grade
    attendance,     \* table attendance
    link_codes,     \* table student_link_code
    parent_student, \* table parent_student_association: <<parent_id, student_id>>
    session,        \* db.session of the running import: rows not yet committed
    imp,            \* the running bulk import: its locals and its position
    outcome,        \* what the last finished request reported to its caller
    nreq,           \* number of write requests begun
    req,            \* the last request of a teacher, admin or parent: who and what
    hist            \* per student: the link codes that were handed out, in order

tables == <<schools, users, students, teachers, parents, subjects, grades,
            attendance, link_codes, parent_student>>
vars == <<schools, users, students, teachers, parents, subjects, grades,
          attendance, link_codes, parent_student, session, imp, outcome, nreq,
          req, hist>>

\* text literals
T_GHS1 == <<"G", "H", "S", "@", "1">>
T_GHS2 == <<"G", "H", "S", "@", "2">>
T_Ann == <<"A", "n", "n">>
T_Bea == <<"B", "e", "a">>
T_ann1 == <<"a", "n", "n", "1">>
T_bea1pad == <<" ", "b", "e", "a", "1">>
T_bea1 == <<"b", "e", "a", "1">>
T_cyd1 == <<"c", "y", "d", "1">>
T_dan1 == <<"d", "a", "n", "1">>
T_adm1 == <<"a", "d", "m", "1">>
T_adm2 == <<"a", "d", "m", "2">>
T_tch1 == <<"t", "c", "h", "1">>
T_tch2 == <<"t", "c", "h", "2">>
T_tch3 == <<"t", "c", "h", "3">>
T_secret1 == <<"s", "e", "c", "r", "e", "t", "1">>
T_secret2 == <<"s", "e", "c", "r", "e", "t", "2">>
T_abc == <<"a", "b", "c">>

\* The schools every behaviour starts with: two tenants whose codes share the
\* part before '@' (SchoolRegistrationForm only asks for distinct codes).
InitSchools == {[id |-> 1, school_code |-> T_GHS1], [id |-> 2, school_code |-> T_GHS2]}
SchoolIds == {s.id : s \in schools}

\* Each school comes with its admin user (super_admin_dashboard); the teachers
\* are those of the seed data.
InitUsers ==
    {[id |-> 1, username |-> T_adm1, role |-> "school_admin", school_id |-> 1],
     [id |-> 2, username |-> T_adm2, role |-> "school_admin", school_id |-> 2],
     [id |-> 3, username |-> T_tch1, role |-> "teacher", school_id |-> 1],
     [id |-> 4, username |-> T_tch2, role |-> "teacher", school_id |-> 2],
     [id |-> 5, username |-> T_tch3, role |-> "teacher", school_id |-> 1]}
InitTeachers ==
    {[id |-> 1, user_id |-> 3, school_id |-> 1],
     [id |-> 2, user_id |-> 4, school_id |-> 2],
     [id |-> 3, user_id |-> 5, school_id |-> 1]}

SchoolById(id) == CHOOSE s \in schools : s.id = id

\* users, students, schools: rows flushed (INSERTed) but not committed;
\* new, new_users, new_subjects: objects added to the session, not yet flushed.
EmptySession ==
    [users |-> {}, students |-> {}, schools |-> {},
     new |-> {}, new_users |-> {}, new_subjects |-> {}]
EmptyReport == [added |-> 0, skipped |-> 0, errors |-> <<>>]
IdleImp ==
    [pc |-> "idle", kind |-> "none", school_id |-> 0,
     file |-> [cols |-> TRUE, rows |-> <<>>], idx |-> 1,
     existing_usernames |-> {}, student_count |-> 0, count0 |-> 0,
     school_code_base |-> <<>>, new_users_in_file |-> <<>>,
     existing_subjects |-> {}, existing_school_codes |-> {},
     new_codes_in_file |-> <<>>,
     report |-> EmptyReport, accepted |-> <<>>, before |-> <<>>]

NoRequest == [kind |-> "none", pc |-> "done"]

\* No import is between its first line and its return.
Quiet == imp.pc \in {"idle", "done", "error"}

\* ------------------------------------------------------------------ student rows
StudentRow(n, y, u, p) ==
    [FullName |-> n, AdmissionYear |-> y, LoginUsername |-> u, InitialPassword |-> p]

\* The rows a students spreadsheet is made of.
StudentRowPool ==
    { StudentRow(Cell(T_Ann), Cell(2024), Cell(T_ann1), Cell(T_secret1)),
      StudentRow(Cell(T_Bea), Cell(2024), Cell(T_ann1), Cell(T_secret2)),
      StudentRow(Cell(T_Ann), Cell(2005), Cell(T_bea1pad), Cell(T_secret1)),
      StudentRow(Cell(T_Bea), Cell(2024), Cell(T_cyd1), Cell(T_secret2)),
      StudentRow(Cell(T_Bea), Cell(1999), Cell(T_ann1), Cell(T_secret1)),
      StudentRow(Cell(T_Ann), Cell(2024), Cell(T_dan1), Cell(T_abc)),
      StudentRow(NaNText, Cell(2024), Cell(T_ann1), Cell(T_secret1)) }

\* A spreadsheet is a header (cols: it has the required columns) and at most
\* MaxRows data rows. The importer reads the rows in file order, so the model
\* draws each row when the loop reaches it and keeps the rows read so far in
\* imp.file.rows; the file ends where the commit step is taken.

\* Password minimum length of the importers and the forms.
MinPasswordLen == 6
MinYear == 2000
MaxYear == 2100

\* ValidateStudentRow without the "seen in this file" list: only the snapshot
\* of existing usernames is consulted.
ValidateStudentRowSnapshotOnly(row, existing_usernames, new_users_in_file) ==
    LET full_name == Strip(StrOf(row.FullName))
        adm_year == row.AdmissionYear.v
        username == Strip(StrOf(row.LoginUsername))
        password == Strip(StrOf(row.InitialPassword))
    IN  IF \/ IsNa(row.FullName) \/ IsNa(row.AdmissionYear)
           \/ IsNa(row.LoginUsername) \/ IsNa(row.InitialPassword)
           \/ full_name = <<>> \/ adm_year = 0 \/ username = <<>> \/ password = <<>>
        THEN "blank"
        ELSE IF ~(MinYear <= adm_year /\ adm_year <= MaxYear) THEN "year"
        ELSE IF username \in existing_usernames THEN "taken"
        ELSE IF Len(password) < MinPasswordLen THEN "password"
        ELSE "ok"

\* bulk_importer.py:97-119, the checks a row passes before it is staged.
\* "blank" | "year" | "taken" | "password" | "ok"
ValidateStudentRow(row, existing_usernames, new_users_in_file) ==
    LET full_name == Strip(StrOf(row.FullName))
        adm_year == row.AdmissionYear.v
        username == Strip(StrOf(row.LoginUsername))
        password == Strip(StrOf(row.InitialPassword))
        inFile == {new_users_in_file[i] : i \in 1..Len(new_users_in_file)}
    IN  IF \/ IsNa(row.FullName) \/ IsNa(row.AdmissionYear)
           \/ IsNa(row.LoginUsername) \/ IsNa(row.InitialPassword)
           \/ full_name = <<>> \/ adm_year = 0 \/ username = <<>> \/ password = <<>>
        THEN "blank"
        ELSE IF ~(MinYear <= adm_year /\ adm_year <= MaxYear) THEN "year"
        ELSE IF username \in existing_usernames \/ username \in inFile THEN "taken"
        ELSE IF Len(password) < MinPasswordLen THEN "password"
        ELSE "ok"

\* A skip whose message carries the number of the row above.
SkipRowRowAbove(st, why, who) ==
    [st EXCEPT !.report.skipped = @ + 1,
               !.report.errors = Append(@, [row |-> st.idx, msg |-> why, who |-> who]),
               !.idx = @ + 1]

\* report["skipped"] += 1; report["errors"].append(f"Row {index+2}: ...")
\* idx is 1-based here, so the spreadsheet row number index+2 is idx+1.
SkipRow(st, why, who) ==
    [st EXCEPT !.report.skipped = @ + 1,
               !.report.errors = Append(@, [row |-> st.idx + 1, msg |-> why, who |-> who]),
               !.idx = @ + 1]

\* ------------------------------------------------------------------ the session
\* The rows the transaction of the session sees: committed and flushed.
TxUsers == users \cup session.users
TxStudents == students \cup session.students

\* IntegrityError of an INSERT: user.username and student.admission_number
\* are unique=True (models.py:62, models.py:87).
UserInsertRaises(u, table) == u.username \in {x.username : x \in table}
\* A student table without the unique index on admission_number.
StudentInsertNeverRaises(s, table) == FALSE
StudentInsertRaises(s, table) ==
    s.admission_number \in {x.admission_number : x \in table}

RECURSIVE InsertStudents(_, _)
\* INSERT the pending students into `table`, each receiving its primary key.
InsertStudents(new, table) ==
    IF new = {} THEN table
    ELSE LET s == CHOOSE x \in new : TRUE
         IN InsertStudents(new \ {s}, table \cup {[s EXCEPT !.id = NextId(table)]})

RECURSIVE InsertsRaise(_, _)
InsertsRaise(new, table) ==
    IF new = {} THEN FALSE
    ELSE LET s == CHOOSE x \in new : TRUE
         IN \/ StudentInsertRaises(s, table)
            \/ InsertsRaise(new \ {s}, table \cup {[s EXCEPT !.id = NextId(table)]})

\* ------------------------------------------------------------------ student import
\* StageStudentRow with the sequence number taken from the count of before the
\* import instead of the running counter.
StageStudentRowStaleCount(st, row) ==
    LET adm_year == row.AdmissionYear.v
        username == Strip(StrOf(row.LoginUsername))
        student_count == st.count0 + 1
        adm_num == generate_admission_number(st.school_code_base, student_count,
                                             LastTwo(IntToStr(adm_year)))
    IN [st EXCEPT !.student_count = student_count,
                  !.new_users_in_file = Append(@, username),
                  !.report.added = @ + 1,
                  !.accepted = Append(@, [row |-> st.idx + 1, seq |-> student_count,
                                          adm |-> adm_num, username |-> username,
                                          full_name |-> Strip(StrOf(row.FullName))]),
                  !.idx = @ + 1]

\* bulk_importer.py:129-138, the locals after a row was staged: the running
\* counter is incremented and the row's admission number is made from it.
\* `accepted` records, per accepted row, what it was given.
StageStudentRow(st, row) ==
    LET adm_year == row.AdmissionYear.v
        username == Strip(StrOf(row.LoginUsername))
        student_count == st.student_count + 1
        adm_num == generate_admission_number(st.school_code_base, student_count,
                                             LastTwo(IntToStr(adm_year)))
    IN [st EXCEPT !.student_count = student_count,
                  !.new_users_in_file = Append(@, username),
                  !.report.added = @ + 1,
                  !.accepted = Append(@, [row |-> st.idx + 1, seq |-> student_count,
                                          adm |-> adm_num, username |-> username,
                                          full_name |-> Strip(StrOf(row.FullName))]),
                  !.idx = @ + 1]

\* The Student object line 134 builds; it has no primary key until flushed.
NewStudent(full_name, adm_num, adm_year, user_id, school_id) ==
    [id |-> 0, full_name |-> full_name, admission_number |-> adm_num,
     admission_year |-> adm_year, user_id |-> user_id, school_id |-> school_id]

\* process_student_upload, lines 75-89: read the file, check the header, take
\* the snapshot of usernames and the student count.
StudentUploadBegin(cols, school_id) ==
    /\ Quiet
    /\ nreq < MaxRequests
    /\ nreq' = nreq + 1
    /\ UNCHANGED <<req, hist>>
    /\ session' = EmptySession
    /\ IF ~cols
       THEN /\ imp' = [IdleImp EXCEPT !.pc = "error", !.kind = "students",
                                      !.school_id = school_id, !.file.cols = FALSE,
                                      !.before = tables]
            /\ outcome' = "import_error"
       ELSE /\ imp' = [IdleImp EXCEPT
                         !.pc = "rows", !.kind = "students",
                         !.school_id = school_id,
                         !.existing_usernames = {u.username : u \in users},
                         !.student_count =
                             Cardinality({s \in students : s.school_id = school_id}),
                         !.count0 =
                             Cardinality({s \in students : s.school_id = school_id}),
                         !.school_code_base =
                             BeforeFirst(SchoolById(school_id).school_code, "@"),
                         !.before = tables]
            /\ outcome' = "running"
    /\ UNCHANGED tables

\* process_student_upload, lines 91-143: one iteration of the row loop.
StudentUploadRow(row) ==
    /\ imp.pc = "rows" /\ imp.kind = "students"
    /\ imp.idx <= MaxRows
    /\ LET st == [imp EXCEPT !.file.rows = Append(@, row)]
           username == Strip(StrOf(row.LoginUsername))
           verdict == ValidateStudentRow(row, st.existing_usernames,
                                         st.new_users_in_file)
           new_user == [id |-> NextId(TxUsers), username |-> username,
                        role |-> "student", school_id |-> imp.school_id]
           staged == StageStudentRow(st, row)
           adm_num == staged.accepted[Len(staged.accepted)].adm
       IN IF verdict # "ok"
          THEN /\ imp' = SkipRow(st, verdict, username)
               /\ UNCHANGED session
          ELSE IF \/ UserInsertRaises(new_user, TxUsers)
                  \/ InsertsRaise(session.new, TxStudents)
          \* db.session.flush() raised: the except branch rolls the session back
          THEN /\ session' = EmptySession
               /\ imp' = SkipRow(st, "error", username)
          ELSE /\ session' =
                    [session EXCEPT
                       !.users = @ \cup {new_user},
                       !.students = InsertStudents(session.new, TxStudents) \ students,
                       !.new = {NewStudent(Strip(StrOf(row.FullName)), adm_num,
                                           row.AdmissionYear.v, new_user.id,
                                           imp.school_id)}]
               /\ imp' = staged
    /\ UNCHANGED <<tables, outcome, nreq, req, hist>>

\* A failed commit that keeps the rows already flushed.
AfterFailedCommitPartial(committed, staged) == committed \cup staged

\* What the tables hold after the final commit failed and was rolled back.
AfterFailedCommit(committed, staged) == committed

\* process_student_upload, lines 145-154: the single commit after the loop.
StudentUploadCommit ==
    /\ imp.pc = "rows" /\ imp.kind = "students"
    /\ IF InsertsRaise(session.new, TxStudents)
       THEN /\ users' = AfterFailedCommit(users, session.users)
            /\ students' = AfterFailedCommit(students, session.students)
            /\ imp' = [imp EXCEPT !.pc = "error"]
            /\ outcome' = "import_error"
       ELSE /\ users' = users \cup session.users
            /\ students' = InsertStudents(session.new, TxStudents)
            /\ imp' = [imp EXCEPT !.pc = "done"]
            /\ outcome' = "report"
    /\ session' = EmptySession
    /\ UNCHANGED <<schools, teachers, parents, subjects, grades, attendance,
                   link_codes, parent_student, nreq, req, hist>>

\* ------------------------------------------------------------------ single student
\* StudentRegistrationForm.validate(): DataRequired, Length, NumberRange and
\* validate_username (app.py:145-152).
StudentFormValid(f) ==
    /\ Len(Strip(f.full_name)) > 0 /\ Len(f.full_name) >= 3
    /\ f.admission_year # 0
    /\ MinYear <= f.admission_year /\ f.admission_year <= MaxYear
    /\ Len(Strip(f.username)) > 0 /\ Len(f.username) >= 4
    /\ ~\E u \in users : u.username = f.username
    /\ Len(f.password) >= MinPasswordLen

\* The forms an admin posts: the cells of the pool's rows, as typed.
StudentFormPool ==
    {[full_name |-> r.FullName.v, admission_year |-> r.AdmissionYear.v,
      username |-> r.LoginUsername.v, password |-> r.InitialPassword.v] :
        r \in {x \in StudentRowPool : ~IsNa(x.FullName)}}

\* app.py:344-363, POST of admin_manage_students by the admin of school_id.
admin_manage_students(f, school_id) ==
    /\ Quiet
    /\ nreq < MaxRequests
    /\ nreq' = nreq + 1
    /\ UNCHANGED <<req, hist>>
    /\ IF ~StudentFormValid(f)
       THEN /\ outcome' = "invalid_form"
            /\ UNCHANGED <<users, students>>
       ELSE LET new_user == [id |-> NextId(users), username |-> f.username,
                             role |-> "student", school_id |-> school_id]
                student_count ==
                    Cardinality({s \in students : s.school_id = school_id}) + 1
                school_code_base == BeforeFirst(SchoolById(school_id).school_code, "@")
                adm_num == generate_admission_number(school_code_base, student_count,
                               LastTwo(IntToStr(f.admission_year)))
                new_student == NewStudent(f.full_name, adm_num, f.admission_year,
                                          new_user.id, school_id)
            IN IF StudentInsertRaises(new_student, students)
               THEN /\ outcome' = "create_error"
                    /\ UNCHANGED <<users, students>>
               ELSE /\ outcome' = "created"
                    /\ users' = users \cup {new_user}
                    /\ students' = InsertStudents({new_student}, students)
    /\ imp' = IdleImp
    /\ UNCHANGED <<schools, teachers, parents, subjects, grades, attendance,
                   link_codes, parent_student, session>>

\* ------------------------------------------------------------------ specification: students
InitStudents ==
    /\ schools = InitSchools
    /\ users = InitUsers
    /\ students = {}
    /\ teachers = InitTeachers
    /\ parents = {}
    /\ subjects = {}
    /\ grades = {}
    /\ attendance = {}
    /\ link_codes = {}
    /\ parent_student = {}
    /\ session = EmptySession
    /\ imp = IdleImp
    /\ outcome = "none"
    /\ nreq = 0
    /\ req = NoRequest
    /\ hist = <<>>

NextStudents ==
    \/ \E cols \in BOOLEAN, school_id \in SchoolIds :
           StudentUploadBegin(cols, school_id)
    \/ \E row \in StudentRowPool : StudentUploadRow(row)
    \/ StudentUploadCommit
    \/ \E f \in StudentFormPool, school_id \in SchoolIds :
           admin_manage_students(f, school_id)

SpecStudents == InitStudents /\ [][NextStudents]_vars

\* ------------------------------------------------------------------ school import
T_GHS3 == <<"G", "H", "S", "@", "3">>
T_adm3 == <<"a", "d", "m", "3">>

SchoolRow(n, c, u, p) ==
    [SchoolName |-> n, SchoolCode |-> c, AdminUsername |-> u, AdminPassword |-> p]

\* The rows a schools spreadsheet is made of.
SchoolRowPool ==
    { SchoolRow(Cell(T_Ann), Cell(T_GHS3), Cell(T_adm3), Cell(T_secret1)),
      SchoolRow(Cell(T_Bea), Cell(T_GHS1), Cell(T_adm3), Cell(T_secret1)),
      SchoolRow(Cell(T_Bea), Cell(T_GHS3), Cell(T_adm1), Cell(T_secret2)),
      SchoolRow(Cell(T_Ann), Cell(T_GHS3), Cell(T_adm3), Cell(T_abc)),
      SchoolRow(NaNText, Cell(T_GHS3), Cell(T_adm3), Cell(T_secret1)) }

ToSet(q) == {q[i] : i \in 1..Len(q)}

\* bulk_importer.py:182-206. "blank" | "code" | "taken" | "password" | "ok"
ValidateSchoolRow(row, st) ==
    LET school_name == Strip(StrOf(row.SchoolName))
        school_code == Strip(StrOf(row.SchoolCode))
        admin_user == Strip(StrOf(row.AdminUsername))
        admin_pass == Strip(StrOf(row.AdminPassword))
    IN  IF \/ IsNa(row.SchoolName) \/ IsNa(row.SchoolCode)
           \/ IsNa(row.AdminUsername) \/ IsNa(row.AdminPassword)
           \/ school_name = <<>> \/ school_code = <<>>
           \/ admin_user = <<>> \/ admin_pass = <<>>
        THEN "blank"
        ELSE IF \/ school_code \in st.existing_school_codes
                \/ school_code \in ToSet(st.new_codes_in_file) THEN "code"
        ELSE IF \/ admin_user \in st.existing_usernames
                \/ admin_user \in ToSet(st.new_users_in_file) THEN "taken"
        ELSE IF Len(admin_pass) < MinPasswordLen THEN "password"
        ELSE "ok"

TxSchools == schools \cup session.schools
\* IntegrityError of an INSERT: school.school_code is unique=True (models.py:49).
SchoolInsertRaises(x, table) == x.school_code \in {y.school_code : y \in table}

RECURSIVE InsertUsers(_, _)
\* INSERT the pending users into `table`, each receiving its primary key.
InsertUsers(new, table) ==
    IF new = {} THEN table
    ELSE LET u == CHOOSE x \in new : TRUE
         IN InsertUsers(new \ {u}, table \cup {[u EXCEPT !.id = NextId(table)]})

RECURSIVE UserInsertsRaise(_, _)
UserInsertsRaise(new, table) ==
    IF new = {} THEN FALSE
    ELSE LET u == CHOOSE x \in new : TRUE
         IN \/ UserInsertRaises(u, table)
            \/ UserInsertsRaise(new \ {u}, table \cup {[u EXCEPT !.id = NextId(table)]})

\* process_school_upload, lines 164-179.
SchoolUploadBegin(cols) ==
    /\ Quiet
    /\ nreq < MaxRequests
    /\ nreq' = nreq + 1
    /\ UNCHANGED <<req, hist>>
    /\ session' = EmptySession
    /\ IF ~cols
       THEN /\ imp' = [IdleImp EXCEPT !.pc = "error", !.kind = "schools",
                                      !.file.cols = FALSE, !.before = tables]
            /\ outcome' = "import_error"
       ELSE /\ imp' = [IdleImp EXCEPT
                         !.pc = "rows", !.kind = "schools",
                         !.existing_school_codes = {x.school_code : x \in schools},
                         !.existing_usernames = {u.username : u \in users},
                         !.before = tables]
            /\ outcome' = "running"
    /\ UNCHANGED tables

\* process_school_upload, lines 181-235: one iteration of the row loop. The
\* flush of line 216 INSERTs the new school and the admin user the previous
\* row left pending.
SchoolUploadRow(row) ==
    /\ imp.pc = "rows" /\ imp.kind = "schools"
    /\ imp.idx <= MaxRows
    /\ LET st == [imp EXCEPT !.file.rows = Append(@, row)]
           school_code == Strip(StrOf(row.SchoolCode))
           admin_user == Strip(StrOf(row.AdminUsername))
           verdict == ValidateSchoolRow(row, st)
           new_school == [id |-> NextId(TxSchools), school_code |-> school_code]
           new_admin == [id |-> 0, username |-> admin_user, role |-> "school_admin",
                         school_id |-> new_school.id]
       IN IF verdict # "ok"
          THEN /\ imp' = SkipRow(st, verdict,
                                 IF verdict \in {"blank", "code"} THEN school_code
                                 ELSE admin_user)
               /\ UNCHANGED session
          ELSE IF \/ SchoolInsertRaises(new_school, TxSchools)
                  \/ UserInsertsRaise(session.new_users, TxUsers)
          THEN /\ session' = EmptySession
               /\ imp' = SkipRow(st, "error", school_code)
          ELSE /\ session' =
                    [session EXCEPT
                       !.schools = @ \cup {new_school},
                       !.users = InsertUsers(session.new_users, TxUsers) \ users,
                       !.new_users = {new_admin}]
               /\ imp' = [st EXCEPT
                            !.new_codes_in_file = Append(@, school_code),
                            !.new_users_in_file = Append(@, admin_user),
                            !.report.added = @ + 1,
                            !.accepted = Append(@, [row |-> st.idx + 1,
                                                    school_code |-> school_code,
                                                    username |-> admin_user]),
                            !.idx = @ + 1]
    /\ UNCHANGED <<tables, outcome, nreq, req, hist>>

\* process_school_upload, lines 237-246.
SchoolUploadCommit ==
    /\ imp.pc = "rows" /\ imp.kind = "schools"
    /\ IF UserInsertsRaise(session.new_users, TxUsers)
       THEN /\ users' = AfterFailedCommit(users, session.users)
            /\ schools' = AfterFailedCommit(schools, session.schools)
            /\ imp' = [imp EXCEPT !.pc = "error"]
            /\ outcome' = "import_error"
       ELSE /\ users' = InsertUsers(session.new_users, TxUsers)
            /\ schools' = TxSchools
            /\ imp' = [imp EXCEPT !.pc = "done"]
            /\ outcome' = "report"
    /\ session' = EmptySession
    /\ UNCHANGED <<students, teachers, parents, subjects, grades, attendance,
                   link_codes, parent_student, nreq, req, hist>>

NextSchools ==
    \/ \E cols \in BOOLEAN : SchoolUploadBegin(cols)
    \/ \E row \in SchoolRowPool : SchoolUploadRow(row)
    \/ SchoolUploadCommit

\* ------------------------------------------------------------------ claims: student import
\* The tables as they were when the running import began.
UsersBefore == imp.before[2]
StudentsBefore == imp.before[3]

IsStudentImport == imp.kind = "students" /\ imp.file.cols

\* The digits between the two slashes of an admission number made from `base`.
SeqField(adm, base) == SubSeq(adm, Len(base) + 2, Len(adm) - 3)

\* C1: in one run of process_student_upload the sequence numbers in the
\* admission numbers of the accepted rows are strictly increasing in file
\* order, the first is (students already in the school) + 1, and no two
\* accepted rows get the same admission number, same full name or not.
C1_SequenceNumbers ==
    IsStudentImport =>
        LET acc == imp.accepted
            n == Len(acc)
            inSchool == {s \in StudentsBefore : s.school_id = imp.school_id}
        IN /\ n >= 1 => acc[1].seq = Cardinality(inSchool) + 1
           /\ \A i \in 1..n :
                  SeqField(acc[i].adm, imp.school_code_base) = Format05d(acc[i].seq)
           /\ \A i \in 1..n : \A j \in 1..n :
                  i < j => /\ acc[i].row < acc[j].row
                           /\ acc[i].seq < acc[j].seq
                           /\ acc[i].adm # acc[j].adm

\* Two rows with the same full name were accepted in a school that already
\* had a student.
C1_Witness ==
    /\ IsStudentImport
    /\ Len(imp.accepted) = 2
    /\ imp.accepted[1].full_name = imp.accepted[2].full_name
    /\ imp.count0 >= 1

\* C2 (as claimed): when staging a row raises, only that row is discarded:
\* every row accepted in the file is persisted by the final commit.
C2_AcceptedRowsPersist ==
    (IsStudentImport /\ imp.pc = "done") =>
        \A i \in 1..Len(imp.accepted) :
            \E s \in students :
                /\ s.admission_number = imp.accepted[i].adm
                /\ s.school_id = imp.school_id

\* C26: student admission in one school is independent of the other schools'
\* students, also for school codes that share the part before '@' (GHS@1,
\* GHS@2): neither the student form nor a student import ever fails on an
\* admission number, which it would only by producing one that another
\* school has issued.
C26_SchoolsAdmitIndependently ==
    /\ outcome # "create_error"
    /\ IsStudentImport =>
           /\ imp.pc # "error"
           /\ \A k \in 1..Len(imp.report.errors) :
                  imp.report.errors[k].msg # "error"

\* The processed row i of the running student import.
RowUsername(i) == Strip(StrOf(imp.file.rows[i].LoginUsername))
AcceptedBefore(i) ==
    {imp.accepted[k].username : k \in {k \in 1..Len(imp.accepted) : imp.accepted[k].row < i + 1}}
\* Row i carries a username that exists or that an earlier row of the file got.
RowUsernameTaken(i) ==
    \/ RowUsername(i) \in {u.username : u \in UsersBefore}
    \/ RowUsername(i) \in AcceptedBefore(i)
\* Row i has no blank cell and a year in 2000..2100.
RowWellFormed(i) ==
    LET r == imp.file.rows[i]
    IN /\ ~IsNa(r.FullName) /\ ~IsNa(r.AdmissionYear)
       /\ ~IsNa(r.LoginUsername) /\ ~IsNa(r.InitialPassword)
       /\ Strip(r.FullName.v) # <<>> /\ Strip(r.LoginUsername.v) # <<>>
       /\ Strip(r.InitialPassword.v) # <<>>
       /\ r.AdmissionYear.v >= 2000 /\ r.AdmissionYear.v <= 2100
ErrorsOfRow(i) ==
    {k \in 1..Len(imp.report.errors) : imp.report.errors[k].row = i + 1}
RowSkipped(i) ==
    /\ Cardinality(ErrorsOfRow(i)) = 1
    /\ \A k \in 1..Len(imp.accepted) : imp.accepted[k].row # i + 1
\* What the session and the counters hold comes from accepted rows only.
OnlyAcceptedStaged ==
    /\ imp.student_count = imp.count0 + Len(imp.accepted)
    /\ imp.report.added = Len(imp.accepted)
    /\ imp.report.skipped = Len(imp.report.errors)
    /\ imp.report.added + imp.report.skipped = Len(imp.file.rows)
    /\ \A u \in session.users :
           \E k \in 1..Len(imp.accepted) : imp.accepted[k].username = u.username
    /\ \A s \in session.students \cup session.new :
           \E k \in 1..Len(imp.accepted) : imp.accepted[k].adm = s.admission_number
    /\ Cardinality(session.users) <= Len(imp.accepted)
    /\ Cardinality(session.students \cup session.new) <= Len(imp.accepted)
\* The file of the scenario: (Ann,2024,ann1,secret1),(Bea,2024,ann1,secret2)
\* imported into the empty school GHS@1.
AnnBeaImported ==
    /\ IsStudentImport /\ imp.pc = "done"
    /\ SchoolById(imp.school_id).school_code = T_GHS1
    /\ imp.count0 = 0
    /\ ~\E u \in UsersBefore : u.username = T_ann1
    /\ imp.file.rows =
         << StudentRow(Cell(T_Ann), Cell(2024), Cell(T_ann1), Cell(T_secret1)),
            StudentRow(Cell(T_Bea), Cell(2024), Cell(T_ann1), Cell(T_secret2)) >>
T_GHS_00001_24 ==
    <<"G", "H", "S", "/", "0", "0", "0", "0", "1", "/", "2", "4">>
AnnBeaReport ==
    /\ imp.report.added = 1 /\ imp.report.skipped = 1
    /\ imp.report.errors = <<[row |-> 3, msg |-> "taken", who |-> T_ann1]>>
    /\ Cardinality(students \ StudentsBefore) = 1
    /\ \A s \in students \ StudentsBefore :
           /\ s.full_name = T_Ann /\ s.admission_number = T_GHS_00001_24
           /\ s.school_id = imp.school_id
    /\ {u.username : u \in users \ UsersBefore} = {T_ann1}

C5_ErrorPersistsNothing ==
    imp.pc = "error" => (tables = imp.before /\ outcome = "import_error")

\* ------------------------------------------------------------------ subject import
T_Math == <<"M", "a", "t", "h">>
T_math == <<"m", "a", "t", "h">>
T_MathPad == <<" ", "M", "a", "t", "h">>
T_Art == <<"A", "r", "t">>
T_Blank == <<" ", " ">>

\* The SubjectName cells a subjects spreadsheet is made of.
SubjectCellPool ==
    {Cell(T_Math), Cell(T_math), Cell(T_MathPad), Cell(T_Art), Cell(T_Blank), NaNText}

\* ValidateSubjectRow with the comparison made on the name as written.
ValidateSubjectRowCaseSensitive(cell, existing_subjects) ==
    LET subject_name == Strip(StrOf(cell))
    IN IF subject_name = <<>> \/ IsNa(cell) THEN "blank"
       ELSE IF subject_name \in existing_subjects THEN "exists"
       ELSE "ok"

\* bulk_importer.py:31-41. "blank" | "exists" | "ok"
ValidateSubjectRow(cell, existing_subjects) ==
    LET subject_name == Strip(StrOf(cell))
    IN IF subject_name = <<>> \/ IsNa(cell) THEN "blank"
       ELSE IF Lower(subject_name) \in existing_subjects THEN "exists"
       ELSE "ok"

RECURSIVE InsertSubjects(_, _)
\* INSERT the pending subjects into `table`, each receiving its primary key.
InsertSubjects(new, table) ==
    IF new = {} THEN table
    ELSE LET x == CHOOSE y \in new : \A z \in new : y.ord <= z.ord
         IN InsertSubjects(new \ {x},
                table \cup {[id |-> NextId(table), name |-> x.name,
                             school_id |-> x.school_id]})

\* process_subject_upload, lines 16-28.
SubjectUploadBegin(cols, school_id) ==
    /\ Quiet
    /\ nreq < MaxRequests
    /\ nreq' = nreq + 1
    /\ UNCHANGED <<req, hist>>
    /\ session' = EmptySession
    /\ IF ~cols
       THEN /\ imp' = [IdleImp EXCEPT !.pc = "error", !.kind = "subjects",
                                      !.school_id = school_id, !.file.cols = FALSE,
                                      !.before = tables]
            /\ outcome' = "import_error"
       ELSE /\ imp' = [IdleImp EXCEPT
                         !.pc = "rows", !.kind = "subjects",
                         !.school_id = school_id,
                         !.existing_subjects =
                             {Lower(x.name) : x \in {y \in subjects : y.school_id = school_id}},
                         !.before = tables]
            /\ outcome' = "running"
    /\ UNCHANGED tables

\* process_subject_upload, lines 30-50: one iteration of the row loop.
SubjectUploadRow(cell) ==
    /\ imp.pc = "rows" /\ imp.kind = "subjects"
    /\ imp.idx <= MaxRows
    /\ LET st == [imp EXCEPT !.file.rows = Append(@, cell)]
           subject_name == Strip(StrOf(cell))
           verdict == ValidateSubjectRow(cell, st.existing_subjects)
       IN IF verdict # "ok"
          THEN /\ imp' = SkipRow(st, verdict, subject_name)
               /\ UNCHANGED session
          ELSE /\ session' =
                    [session EXCEPT !.new_subjects =
                        @ \cup {[ord |-> st.idx, name |-> subject_name,
                                 school_id |-> st.school_id]}]
               /\ imp' = [st EXCEPT
                            !.existing_subjects = @ \cup {Lower(subject_name)},
                            !.report.added = @ + 1,
                            !.accepted = Append(@, [row |-> st.idx + 1,
                                                    name |-> subject_name]),
                            !.idx = @ + 1]
    /\ UNCHANGED <<tables, outcome, nreq, req, hist>>

\* process_subject_upload, lines 52-61: no column of subject is unique, so the
\* INSERTs of the commit cannot raise.
SubjectUploadCommit ==
    /\ imp.pc = "rows" /\ imp.kind = "subjects"
    /\ subjects' = InsertSubjects(session.new_subjects, subjects)
    /\ imp' = [imp EXCEPT !.pc = "done"]
    /\ outcome' = "report"
    /\ session' = EmptySession
    /\ UNCHANGED <<schools, users, students, teachers, parents, grades, attendance,
                   link_codes, parent_student, nreq, req, hist>>

\* SubjectForm.validate() without validate_name.
SubjectFormValidNameUnchecked(name, school_id) ==
    Len(Strip(name)) > 0 /\ Len(name) >= 3

\* SubjectForm.validate(): DataRequired, Length(min=3) and validate_name, which
\* compares the name as typed (app.py:139-143).
SubjectFormValid(name, school_id) ==
    /\ Len(Strip(name)) > 0 /\ Len(name) >= 3
    /\ ~\E x \in subjects : x.name = name /\ x.school_id = school_id

\* app.py:380-391, POST of admin_manage_subjects by the admin of school_id.
admin_manage_subjects(name, school_id) ==
    /\ Quiet
    /\ nreq < MaxRequests
    /\ nreq' = nreq + 1
    /\ UNCHANGED <<req, hist>>
    /\ IF SubjectFormValid(name, school_id)
       THEN /\ subjects' = subjects \cup
                  {[id |-> NextId(subjects), name |-> name, school_id |-> school_id]}
            /\ outcome' = "created"
       ELSE /\ outcome' = "invalid_form"
            /\ UNCHANGED subjects
    /\ imp' = IdleImp
    /\ UNCHANGED <<schools, users, students, teachers, parents, grades, attendance,
                   link_codes, parent_student, session>>

NextSubjects ==
    \/ \E cols \in BOOLEAN, school_id \in SchoolIds :
           SubjectUploadBegin(cols, school_id)
    \/ \E cell \in SubjectCellPool : SubjectUploadRow(cell)
    \/ SubjectUploadCommit
    \/ \E cell \in SubjectCellPool \ {NaNText}, school_id \in SchoolIds :
           admin_manage_subjects(cell.v, school_id)

SpecSubjects == InitStudents /\ [][NextSubjects]_vars

\* ------------------------------------------------------------------ claims: subject import
SubjectsBefore == imp.before[6]
IsSubjectImport == imp.kind = "subjects" /\ imp.file.cols

EqIgnoreCase(a, b) == Lower(a) = Lower(b)
SubjectRowName(i) == Strip(StrOf(imp.file.rows[i]))
SubjectRowBlank(i) == IsNa(imp.file.rows[i]) \/ SubjectRowName(i) = <<>>
\* An existing subject of the target school, or an earlier accepted row, has
\* the name of row i up to case.
SubjectRowDuplicate(i) ==
    \/ \E x \in SubjectsBefore :
           x.school_id = imp.school_id /\ EqIgnoreCase(x.name, SubjectRowName(i))
    \/ \E k \in 1..Len(imp.accepted) :
           /\ imp.accepted[k].row < i + 1
           /\ EqIgnoreCase(imp.accepted[k].name, SubjectRowName(i))
SubjectRowAccepted(i) ==
    /\ ErrorsOfRow(i) = {}
    /\ Cardinality({k \in 1..Len(imp.accepted) : imp.accepted[k].row = i + 1}) = 1
MathMathImported ==
    /\ IsSubjectImport /\ imp.pc = "done"
    /\ ~\E x \in SubjectsBefore : x.school_id = imp.school_id
    /\ imp.file.rows = <<Cell(T_Math), Cell(T_math)>>

\* C4: process_subject_upload skips a row whose stripped name equals, ignoring
\* case, the name of a subject of the target school or of an earlier accepted
\* row of the file; a subject of that name in another school causes no skip
\* (a non-blank row without such a duplicate is accepted). ['Math','math']
\* into a school without subjects gives added=1, skipped=1.
C4_CaseInsensitiveDedup ==
    IsSubjectImport =>
        /\ \A i \in 1..Len(imp.file.rows) :
               /\ SubjectRowDuplicate(i) =>
                      /\ RowSkipped(i)
                      /\ \A k \in ErrorsOfRow(i) : imp.report.errors[k].msg = "exists"
               /\ (~SubjectRowBlank(i) /\ ~SubjectRowDuplicate(i)) => SubjectRowAccepted(i)
        /\ MathMathImported =>
               /\ imp.report.added = 1 /\ imp.report.skipped = 1
               /\ {x.name : x \in subjects \ SubjectsBefore} = {T_Math}
        /\ imp.pc = "done" =>
               Cardinality(subjects \ SubjectsBefore) = imp.report.added

\* 'Math','math' was imported into a school without subjects while the other
\* school has a subject Math.
C4_Witness ==
    /\ MathMathImported
    /\ \E x \in SubjectsBefore : x.school_id # imp.school_id /\ x.name = T_Math

\* C21: after any sequence of subject forms and subject imports no two
\* subjects of one school have the same name; two schools may each have a
\* subject of that name.
C21_SubjectNamesUniquePerSchool ==
    \A x, y \in subjects :
        (x.school_id = y.school_id /\ x.name = y.name) => x = y

\* The admin of one school added Math with the form; then a file with the
\* rows 'Math', 'Math' was imported into the other school, which took the
\* first row and skipped the second.
C21_Witness ==
    /\ IsSubjectImport /\ imp.pc = "done"
    /\ imp.file.rows = <<Cell(T_Math), Cell(T_Math)>>
    /\ imp.report.added = 1 /\ imp.report.skipped = 1
    /\ \E x \in SubjectsBefore : x.school_id # imp.school_id /\ x.name = T_Math
    /\ \E y \in subjects : y.school_id = imp.school_id /\ y.name = T_Math

\* ------------------------------------------------------------------ specification: imports
\* The three bulk imports (admin_bulk_manage and super_admin_dashboard), one
\* request at a time.  The student rows are four of the rows of StudentRowPool:
\* two valid ones, one whose username has a leading blank and one with an
\* empty cell.
ImportStudentRowPool ==
    { StudentRow(Cell(T_Ann), Cell(2024), Cell(T_ann1), Cell(T_secret1)),
      StudentRow(Cell(T_Ann), Cell(2005), Cell(T_bea1pad), Cell(T_secret1)),
      StudentRow(Cell(T_Bea), Cell(2024), Cell(T_cyd1), Cell(T_secret2)),
      StudentRow(NaNText, Cell(2024), Cell(T_ann1), Cell(T_secret1)) }

NextImport ==
    \/ \E cols \in BOOLEAN, school_id \in SchoolIds :
           StudentUploadBegin(cols, school_id)
    \/ \E row \in ImportStudentRowPool : StudentUploadRow(row)
    \/ StudentUploadCommit
    \/ \E cols \in BOOLEAN, school_id \in SchoolIds :
           SubjectUploadBegin(cols, school_id)
    \/ \E cell \in SubjectCellPool : SubjectUploadRow(cell)
    \/ SubjectUploadCommit
    \/ NextSchools

SpecImport == InitStudents /\ [][NextImport]_vars

\* C25: whenever an import returns a report, the database holds report.added
\* new entities of the file: students with their users, schools with their
\* admins, subjects.
C25_ReportAddedIsPersisted ==
    imp.pc = "done" =>
        /\ imp.kind = "students" =>
               /\ Cardinality(students \ imp.before[3]) = imp.report.added
               /\ Cardinality(users \ imp.before[2]) = imp.report.added
        /\ imp.kind = "schools" =>
               /\ Cardinality(schools \ imp.before[1]) = imp.report.added
               /\ Cardinality(users \ imp.before[2]) = imp.report.added
        /\ imp.kind = "subjects" =>
               Cardinality(subjects \ imp.before[6]) = imp.report.added

\* What a message can name of the data row i of the file: the username of
\* a student row, the name of a subject row, the code or the admin of a
\* school row.
RowKeys(i) ==
    LET r == imp.file.rows[i]
    IN IF imp.kind = "students" THEN {Strip(StrOf(r.LoginUsername))}
       ELSE IF imp.kind = "subjects" THEN {Strip(StrOf(r))}
       ELSE {Strip(StrOf(r.SchoolCode)), Strip(StrOf(r.AdminUsername))}

\* C29: when an import returns a report every data row of the file is counted
\* exactly once: added + skipped is the number of rows, errors has one
\* message per skipped row, and each message carries the spreadsheet row
\* number (0-based index + 2) of the row it is about.
C29_EveryRowCountedOnce ==
    imp.pc = "done" =>
        LET n == Len(imp.file.rows)
            errors == imp.report.errors
        IN /\ imp.report.added + imp.report.skipped = n
           /\ Len(errors) = imp.report.skipped
           /\ Len(imp.accepted) = imp.report.added
           /\ \A k \in 1..Len(errors) :
                  /\ errors[k].row \in 2..(n + 1)
                  /\ errors[k].who \in RowKeys(errors[k].row - 1)
                  /\ \A j \in 1..Len(errors) : errors[j].row = errors[k].row => j = k
                  /\ \A j \in 1..Len(imp.accepted) : imp.accepted[j].row # errors[k].row

\* A file of two rows was imported: the first was added and the second, the
\* spreadsheet's row 3, was skipped with one message.
C29_Witness ==
    /\ imp.pc = "done" /\ Len(imp.file.rows) = 2
    /\ imp.report.added = 1 /\ imp.report.skipped = 1
    /\ Len(imp.report.errors) = 1 /\ imp.report.errors[1].row = 3
    /\ imp.accepted[1].row = 2

\* A final commit failed after a row had been staged and its user flushed;
\* the header check of each of the three importers is reachable as well.
C5_Witness ==
    /\ imp.pc = "error" /\ imp.file.cols
    /\ Len(imp.accepted) >= 1

\* ------------------------------------------------------------------ a populated database
\* Two schools with one student and one subject each, the state after the two
\* admins posted the student form (Ann/2024/ann1 at school 1, Ann/2005/' bea1'
\* at school 2) and the subject form (Math) once each, and one parent
\* registered with each school (parent_register, app.py:202-223).
T_GHS_00001_05 ==
    <<"G", "H", "S", "/", "0", "0", "0", "0", "1", "/", "0", "5">>
T_GHS_00009_24 ==
    <<"G", "H", "S", "/", "0", "0", "0", "0", "9", "/", "2", "4">>

SeedUsers ==
    InitUsers \cup
    {[id |-> 6, username |-> T_ann1, role |-> "student", school_id |-> 1],
     [id |-> 7, username |-> T_bea1pad, role |-> "student", school_id |-> 2]}
SeedStudents ==
    {[id |-> 1, full_name |-> T_Ann, admission_number |-> T_GHS_00001_24,
      admission_year |-> 2024, user_id |-> 6, school_id |-> 1],
     [id |-> 2, full_name |-> T_Ann, admission_number |-> T_GHS_00001_05,
      admission_year |-> 2005, user_id |-> 7, school_id |-> 2]}
T_par1 == <<"p", "a", "r", "1">>
T_par2 == <<"p", "a", "r", "2">>
T_par3 == <<"p", "a", "r", "3">>
SeedParentUsers ==
    {[id |-> 8, username |-> T_par1, role |-> "parent", school_id |-> 1],
     [id |-> 9, username |-> T_par2, role |-> "parent", school_id |-> 2],
     [id |-> 10, username |-> T_par3, role |-> "parent", school_id |-> 1]}
SeedParents ==
    {[id |-> 1, user_id |-> 8, school_id |-> 1],
     [id |-> 2, user_id |-> 9, school_id |-> 2],
     [id |-> 3, user_id |-> 10, school_id |-> 1]}
SeedSubjects ==
    {[id |-> 1, name |-> T_Math, school_id |-> 1],
     [id |-> 2, name |-> T_Math, school_id |-> 2]}

InitSeeded ==
    /\ schools = InitSchools
    /\ users = SeedUsers \cup SeedParentUsers
    /\ students = SeedStudents
    /\ teachers = InitTeachers
    /\ parents = SeedParents
    /\ subjects = SeedSubjects
    /\ grades = {}
    /\ attendance = {}
    /\ link_codes = {}
    /\ parent_student = {}
    /\ session = EmptySession
    /\ imp = IdleImp
    /\ outcome = "none"
    /\ nreq = 0
    /\ req = NoRequest
    /\ hist = [i \in {x.id : x \in SeedStudents} |-> <<>>]

\* current_user.teacher_profile
TeacherProfile(u) == CHOOSE t \in teachers : t.user_id = u.id
TeacherUsers == {u \in users : u.role = "teacher"}

\* ------------------------------------------------------------------ grade entry
\* app.py:135, the choices of GradeEntryForm.term
TermChoices == {"Term 1 2025", "Term 2 2025", "Term 3 2025"}

\* app.py:132-137 and 442: GradeEntryForm.validate_on_submit().  DataRequired
\* rejects every value that is false in Python (the empty or blank text, the
\* number 0); a SelectField rejects a value that is not among its choices, and
\* the choices of subject_id are the subjects of the teacher's school.  marks
\* has no other validator than DataRequired.
GradeFormValid(f, school_id) ==
    /\ Len(Strip(f.student_admission)) > 0
    /\ f.subject_id # 0
    /\ f.subject_id \in {x.id : x \in {y \in subjects : y.school_id = school_id}}
    /\ f.term \in TermChoices
    /\ f.marks # 0

\* The same lookup over every school.
FindStudentAnySchool(admission, school_id) ==
    {s \in students : s.admission_number = admission}

\* app.py:444, Student.query.filter_by(admission_number=..., school_id=school.id)
FindStudent(admission, school_id) ==
    {s \in students : s.admission_number = admission /\ s.school_id = school_id}

\* Query.first(): the row with the lowest id of those that match.
First(rows) == CHOOSE r \in rows : \A q \in rows : r.id <= q.id

\* A grade entry that never looks for the existing row.
UpsertGradeInsertOnly(student, f, teacher) ==
    grades \cup {[id |-> NextId(grades), marks |-> f.marks,
                  grade_letter |-> calculate_grade_letter(f.marks),
                  term |-> f.term, student_id |-> student.id,
                  subject_id |-> f.subject_id, teacher_id |-> teacher.id]}

\* app.py:448-456: update the row of (student, subject, term) if there is one,
\* insert a row otherwise; the table after the commit.
UpsertGrade(student, f, teacher) ==
    LET existing == {g \in grades : /\ g.student_id = student.id
                                    /\ g.subject_id = f.subject_id
                                    /\ g.term = f.term}
    IN IF existing # {}
       THEN LET existing_grade == First(existing)
            IN (grades \ {existing_grade}) \cup
               {[existing_grade EXCEPT !.marks = f.marks,
                     !.grade_letter = calculate_grade_letter(f.marks),
                     !.teacher_id = teacher.id]}
       ELSE grades \cup {[id |-> NextId(grades), marks |-> f.marks,
                          grade_letter |-> calculate_grade_letter(f.marks),
                          term |-> f.term, student_id |-> student.id,
                          subject_id |-> f.subject_id, teacher_id |-> teacher.id]}

\* app.py:437-462, POST of teacher_dashboard by the teacher user u.
teacher_dashboard(u, f) ==
    LET teacher == TeacherProfile(u)
        found == FindStudent(f.student_admission, u.school_id)
    IN /\ Quiet
       /\ nreq < MaxRequests
       /\ nreq' = nreq + 1
       /\ req' = [kind |-> "grade", pc |-> "done", user_id |-> u.id,
                  school_id |-> u.school_id,
                  teacher_id |-> teacher.id, form |-> f]
       /\ IF ~GradeFormValid(f, u.school_id)
          THEN /\ outcome' = "invalid_form"
               /\ UNCHANGED grades
          ELSE IF found = {}
          THEN /\ outcome' = "not_found"
               /\ UNCHANGED grades
          ELSE LET student == First(found)
               IN /\ grades' = UpsertGrade(student, f, teacher)
                  /\ outcome' =
                         IF \E g \in grades : /\ g.student_id = student.id
                                              /\ g.subject_id = f.subject_id
                                              /\ g.term = f.term
                         THEN "updated" ELSE "submitted"
       /\ UNCHANGED <<schools, users, students, teachers, parents, subjects,
                      attendance, link_codes, parent_student, session, imp, hist>>

\* What teachers type into the grade form.
AdmissionPool == {T_GHS_00001_24, T_GHS_00001_05, T_GHS_00009_24}
SubjectIdPool == {1, 2}
TermPool == {"Term 1 2025", "Term 2 2025"}
MarksPool == {0, 49, 50, 92}
GradeFormPool ==
    [student_admission : AdmissionPool, subject_id : SubjectIdPool,
     term : TermPool, marks : MarksPool]

NextGrades ==
    \E u \in TeacherUsers, f \in GradeFormPool : teacher_dashboard(u, f)

SpecGrades == InitSeeded /\ [][NextGrades]_vars

\* ------------------------------------------------------------------ claims on grade entry
\* The last request was a grade form that passed validation and named a
\* student of the teacher's own school.
GradeAccepted ==
    /\ req.kind = "grade"
    /\ GradeFormValid(req.form, req.school_id)
    /\ \E s \in students : /\ s.admission_number = req.form.student_admission
                           /\ s.school_id = req.school_id
\* The student the last grade form named, and the rows of its triple.
GradedStudent ==
    CHOOSE s \in students : /\ s.admission_number = req.form.student_admission
                            /\ s.school_id = req.school_id
RowsOfTriple(student_id, subject_id, term) ==
    {g \in grades : g.student_id = student_id /\ g.subject_id = subject_id
                    /\ g.term = term}

BandOf(m) ==
    CASE m >= 90 -> "A+"
      [] m >= 80 /\ m <= 89 -> "A"
      [] m >= 70 /\ m <= 79 -> "B"
      [] m >= 60 /\ m <= 69 -> "C"
      [] m >= 50 /\ m <= 59 -> "D"
      [] m < 50 -> "F"

\* C7: every Grade row written through teacher_dashboard has a letter that is
\* the scale's letter of its marks (A+ from 90, A for 80-89, B for 70-79, C for
\* 60-69, D for 50-59, F below 50); a submission of 92 reads back A+, one of
\* 50 reads back D and one of 49 reads back F.
C7_LetterFollowsMarks ==
    /\ \A g \in grades : g.grade_letter = BandOf(g.marks)
    /\ \A m \in (0 - 1)..101 : calculate_grade_letter(m) = BandOf(m)
    /\ GradeAccepted =>
           \A g \in RowsOfTriple(GradedStudent.id, req.form.subject_id,
                                 req.form.term) :
               /\ req.form.marks = 92 => g.grade_letter = "A+"
               /\ req.form.marks = 50 => g.grade_letter = "D"
               /\ req.form.marks = 49 => g.grade_letter = "F"

\* A 50 was just entered and reads back D while another row holds a 49 with F.
C7_Witness ==
    /\ GradeAccepted /\ req.form.marks = 50
    /\ \E g \in grades : g.marks = 50 /\ g.grade_letter = "D"
    /\ \E g \in grades : g.marks = 49 /\ g.grade_letter = "F"

\* The admission number of the last grade form is not one of the teacher's
\* school in the state before the request.
NamesNoOwnStudent(form, school_id) ==
    ~\E s \in students : /\ s.admission_number = form.student_admission
                         /\ s.school_id = school_id

\* C8: a grade submission whose admission number does not belong to a student
\* of the submitting teacher's school ends in the 'not found' outcome and
\* writes nothing, whether the number belongs to a student of another school
\* or to no student at all.  A form that fails validation is answered with the
\* validation error instead, and writes nothing either.
C8_ForeignAdmissionNotFound ==
    [][(req'.kind = "grade" /\ nreq' # nreq
        /\ NamesNoOwnStudent(req'.form, req'.school_id))
       => /\ grades' = grades
          /\ outcome' = IF GradeFormValid(req'.form, req'.school_id)
                        THEN "not_found" ELSE "invalid_form"]_vars

\* A teacher of school 1 posted a valid form with the admission number of the
\* student of school 2, after a grade had been entered.
C8_Witness ==
    /\ req.kind = "grade" /\ req.school_id = 1
    /\ GradeFormValid(req.form, req.school_id)
    /\ req.form.student_admission = T_GHS_00001_05
    /\ \E s \in students : s.admission_number = T_GHS_00001_05 /\ s.school_id = 2
    /\ outcome = "not_found"
    /\ grades # {} /\ \A g \in grades : g.student_id = 1

\* ------------------------------------------------------------------ dates
IsDigit(c) == \E k \in 1..10 : Digits[k] = c
DigitValue(c) == (CHOOSE k \in 1..10 : Digits[k] = c) - 1
AllDigits(s) == \A i \in 1..Len(s) : IsDigit(s[i])

RECURSIVE StrToInt(_)
\* int(s) for a text of decimal digits
StrToInt(s) ==
    IF s = <<>> THEN 0
    ELSE 10 * StrToInt(SubSeq(s, 1, Len(s) - 1)) + DigitValue(s[Len(s)])

RECURSIVE AfterFirst(_, _)
\* what follows the first ch in s; empty when s has no ch
AfterFirst(s, ch) ==
    IF s = <<>> THEN <<>>
    ELSE IF Head(s) = ch THEN Tail(s)
    ELSE AfterFirst(Tail(s), ch)

IsLeap(y) == (y % 4 = 0 /\ y % 100 # 0) \/ y % 400 = 0
DaysInMonth(y, m) ==
    IF m = 2 THEN (IF IsLeap(y) THEN 29 ELSE 28)
    ELSE IF m \in {4, 6, 9, 11} THEN 30 ELSE 31

\* datetime.strptime(s, '%Y-%m-%d').date(): four digits, '-', one or two
\* digits, '-', one or two digits, and a day that exists; anything else raises.
ParseDate(s) ==
    LET ys == BeforeFirst(s, "-")
        r1 == AfterFirst(s, "-")
        ms == BeforeFirst(r1, "-")
        ds == AfterFirst(r1, "-")
        shaped == /\ Len(ys) = 4 /\ AllDigits(ys)
                  /\ Len(ms) \in {1, 2} /\ AllDigits(ms)
                  /\ Len(ds) \in {1, 2} /\ AllDigits(ds)
                  /\ Len(s) = Len(ys) + Len(ms) + Len(ds) + 2
    IN IF ~shaped THEN [ok |-> FALSE, date |-> <<0, 0, 0>>]
       ELSE LET y == StrToInt(ys)
                m == StrToInt(ms)
                d == StrToInt(ds)
            IN IF y >= 1 /\ m \in 1..12 /\ d >= 1 /\ d <= DaysInMonth(y, m)
               THEN [ok |-> TRUE, date |-> <<y, m, d>>]
               ELSE [ok |-> FALSE, date |-> <<0, 0, 0>>]

T_2025_01_06 == <<"2", "0", "2", "5", "-", "0", "1", "-", "0", "6">>
T_2025_1_6 == <<"2", "0", "2", "5", "-", "1", "-", "6">>
T_2025_01_07 == <<"2", "0", "2", "5", "-", "0", "1", "-", "0", "7">>
T_06_01_2025 == <<"0", "6", "/", "0", "1", "/", "2", "0", "2", "5">>

\* ------------------------------------------------------------------ attendance
\* models.py:31-35, the values of AttendanceStatus
AttendanceStatus == {"Present", "Absent", "Late", "Excused"}

\* No attendance request is between its first line and its return.
AttendanceIdle == req.kind # "attendance" \/ req.pc = "done"

\* app.py:478-481, POST of teacher_attendance_roster by the teacher user u:
\* the date is parsed; a date that does not parse raises, which the handler's
\* except answers with a rollback and an error message.
AttendanceBegin(u, date_str) ==
    LET teacher == TeacherProfile(u)
        parsed == ParseDate(date_str)
    IN /\ Quiet /\ AttendanceIdle
       /\ nreq < MaxRequests
       /\ nreq' = nreq + 1
       /\ req' = [kind |-> "attendance",
                  pc |-> IF parsed.ok THEN "loop" ELSE "done",
                  user_id |-> u.id, school_id |-> u.school_id,
                  teacher_id |-> teacher.id, date |-> parsed.date, n |-> 0, last |-> {},
                  staged |-> attendance]
       /\ outcome' = IF parsed.ok THEN "pending" ELSE "error"
       /\ UNCHANGED <<tables, session, imp, hist>>

\* A loop body that never looks for the row of (date, student_id).
StageAttendanceInsertOnly(st, student_id, status) ==
    st.staged \cup
    {[id |-> NextId(st.staged), date |-> st.date, status |-> status,
      student_id |-> student_id, teacher_id |-> st.teacher_id]}

\* app.py:486-488: the row of (date, student_id) is updated if the session
\* finds one (rows added earlier in the batch are flushed by the query), and
\* added otherwise; the session's Attendance table after the entry.
StageAttendance(st, student_id, status) ==
    LET existing == {a \in st.staged : a.date = st.date /\ a.student_id = student_id}
    IN IF existing # {}
       THEN LET att == First(existing)
            IN (st.staged \ {att}) \cup
               {[att EXCEPT !.status = status, !.teacher_id = st.teacher_id]}
       ELSE st.staged \cup
            {[id |-> NextId(st.staged), date |-> st.date, status |-> status,
              student_id |-> student_id, teacher_id |-> st.teacher_id]}

\* A rollback that keeps the rows the loop has written so far.
RollbackAttendanceKeepsStaged(st) == st.staged

\* app.py:493, db.session.rollback(): the rows the request has added or
\* changed are discarded and the table is as the last commit left it.
RollbackAttendance(st) == attendance

\* What the request remembers of the items it has read: how many (n), and
\* for each student named the status of the last item that names it (last).
NamedLast(last, student_id, status) ==
    {e \in last : e.student_id # student_id} \cup
    {[student_id |-> student_id, status |-> status]}

\* app.py:482-488 and 492-494, one 'student_<id>' item of the posted form.
\* AttendanceStatus(status) raises for a text that is no status; the except
\* rolls the session back and the request ends.
AttendanceEntry(student_id, status) ==
    /\ req.kind = "attendance" /\ req.pc = "loop"
    /\ req.n < MaxEntries
    /\ IF status \notin AttendanceStatus
       THEN /\ attendance' = RollbackAttendance(req)
            /\ req' = [req EXCEPT !.pc = "done", !.staged = attendance',
                           !.n = @ + 1,
                           !.last = NamedLast(@, student_id, status)]
            /\ outcome' = "error"
       ELSE /\ req' = [req EXCEPT !.staged = StageAttendance(req, student_id, status),
                           !.n = @ + 1,
                           !.last = NamedLast(@, student_id, status)]
            /\ UNCHANGED <<outcome, attendance>>
    /\ UNCHANGED <<schools, users, students, teachers, parents, subjects, grades,
                   link_codes, parent_student, session, imp, nreq, hist>>

\* app.py:489-491: the form has no further item; commit.
AttendanceCommit ==
    /\ req.kind = "attendance" /\ req.pc = "loop"
    /\ attendance' = req.staged
    /\ req' = [req EXCEPT !.pc = "done"]
    /\ outcome' = "saved"
    /\ UNCHANGED <<schools, users, students, teachers, parents, subjects, grades,
                   link_codes, parent_student, session, imp, nreq, hist>>

\* What teachers post to the roster.
DatePool == {T_2025_01_06, T_2025_1_6, T_2025_01_07, T_06_01_2025}
StudentIdPool == {1, 2}
StatusPool == {"Present", "Late", "Holiday"}

NextAttendance ==
    \/ \E u \in TeacherUsers, date_str \in DatePool : AttendanceBegin(u, date_str)
    \/ \E student_id \in StudentIdPool, status \in StatusPool :
           AttendanceEntry(student_id, status)
    \/ AttendanceCommit

SpecAttendance == InitSeeded /\ [][NextAttendance]_vars

\* ------------------------------------------------------------------ claims on attendance
\* C9: a teacher of school A who posts an attendance batch that names a
\* student of school B is answered with a not-found or forbidden outcome, and
\* no Attendance row of a student of school B is ever created or overwritten
\* by a teacher of school A.
C9_AttendanceStaysInSchool ==
    /\ \A a \in attendance : \A s \in students, t \in teachers :
           (s.id = a.student_id /\ t.id = a.teacher_id) => s.school_id = t.school_id
    /\ (/\ req.kind = "attendance" /\ req.pc = "done"
        /\ \E e \in req.last : \E s \in students :
               s.id = e.student_id /\ s.school_id # req.school_id)
       => outcome # "saved"

\* ------------------------------------------------------------------ link codes
\* A link code is str(uuid.uuid4()), a text of 36 characters that no earlier
\* code equals.  The k-th code generated is written k; 0 stands for a typed
\* text that is not 36 characters long.
NewCode == Max({c.code : c \in link_codes} \cup {0}) + 1

AdminUsers == {u \in users : u.role = "school_admin"}
ParentUsers == {u \in users : u.role = "parent"}
\* current_user.parent_profile
ParentProfile(u) == CHOOSE q \in parents : q.user_id = u.id

\* app.py:372-374 with models.py:158: the commit flushes the session, and a
\* flush emits the INSERT of the new row before the DELETE of the old one.
\* student_id is unique in student_link_code, so the INSERT raises when the
\* student has a row, and the transaction is rolled back.
ReplaceLinkCode(student_id) ==
    LET old == {c \in link_codes : c.student_id = student_id}
        new_code == [id |-> NextId(link_codes), code |-> NewCode,
                     is_used |-> FALSE, student_id |-> student_id]
    IN IF old # {}
       THEN [raised |-> TRUE, table |-> link_codes, code |-> 0]
       ELSE [raised |-> FALSE, table |-> link_codes \cup {new_code},
             code |-> new_code.code]

\* app.py:365-375, POST of admin_generate_link_code by the admin user u.
admin_generate_link_code(u, student_id) ==
    /\ Quiet /\ AttendanceIdle
    /\ student_id \in DOMAIN hist => Len(hist[student_id]) < MaxIssues
    /\ req' = [kind |-> "issue", pc |-> "done", user_id |-> u.id,
               school_id |-> u.school_id, student_id |-> student_id]
    /\ IF ~\E s \in students : s.id = student_id
       THEN /\ outcome' = "404"
            /\ UNCHANGED <<link_codes, hist>>
       ELSE IF \E s \in students : s.id = student_id /\ s.school_id # u.school_id
       THEN /\ outcome' = "403"
            /\ UNCHANGED <<link_codes, hist>>
       ELSE LET r == ReplaceLinkCode(student_id)
            IN /\ link_codes' = r.table
               /\ outcome' = IF r.raised THEN "500" ELSE "generated"
               /\ hist' = [hist EXCEPT ![student_id] = Append(@, r.code)]
    /\ UNCHANGED <<schools, users, students, teachers, parents, subjects, grades,
                   attendance, parent_student, session, imp, nreq>>

\* app.py:164, LinkStudentForm: a text of exactly 36 characters.
LinkFormValid(code) == code # 0

\* The lookup by the code alone.
FindLinkCodeUsedOrNot(code) == {c \in link_codes : c.code = code}

\* app.py:549, StudentLinkCode.query.filter_by(code=code, is_used=False)
FindLinkCode(code) == {c \in link_codes : c.code = code /\ ~c.is_used}

\* A redemption open to the parents of every school.
SameSchoolNotAsked(student, parent) == TRUE

\* app.py:552, the negation of student.school_id != parent.school_id
SameSchool(student, parent) == student.school_id = parent.school_id

\* A redemption that leaves the code as it was.
MarkUsedForgotten(link_code_obj) == link_code_obj

\* app.py:555, link_code_obj.is_used = True
MarkUsed(link_code_obj) == [link_code_obj EXCEPT !.is_used = TRUE]

\* app.py:542-560, POST of parent_link_student by the parent user u.
parent_link_student(u, code) ==
    LET parent == ParentProfile(u)
        found == FindLinkCode(code)
    IN /\ Quiet /\ AttendanceIdle
       /\ req' = [kind |-> "redeem", pc |-> "done", user_id |-> u.id,
                  school_id |-> u.school_id, parent_id |-> parent.id,
                  code |-> code]
       /\ IF ~LinkFormValid(code)
          THEN /\ outcome' = "invalid_form"
               /\ UNCHANGED <<link_codes, parent_student>>
          ELSE IF found = {}
          THEN /\ outcome' = "invalid_code"
               /\ UNCHANGED <<link_codes, parent_student>>
          ELSE LET link_code_obj == First(found)
                   student == CHOOSE s \in students : s.id = link_code_obj.student_id
               IN IF ~SameSchool(student, parent)
                  THEN /\ outcome' = "other_school"
                       /\ UNCHANGED <<link_codes, parent_student>>
                  ELSE IF <<parent.id, student.id>> \in parent_student
                  THEN /\ outcome' = "500"
                       /\ UNCHANGED <<link_codes, parent_student>>
                  ELSE /\ outcome' = "linked"
                       /\ parent_student' = parent_student \cup
                                                {<<parent.id, student.id>>}
                       /\ link_codes' = (link_codes \ {link_code_obj}) \cup
                              {MarkUsed(link_code_obj)}
       /\ UNCHANGED <<schools, users, students, teachers, parents, subjects,
                      grades, attendance, session, imp, nreq, hist>>

\* The student ids an admin posts and the codes a parent types.
IssueIdPool == {1, 2, 9}
CodePool == 0..3

NextLinks ==
    \/ \E u \in AdminUsers, student_id \in IssueIdPool :
           admin_generate_link_code(u, student_id)
    \/ \E u \in ParentUsers, code \in CodePool : parent_link_student(u, code)

SpecLinks == InitSeeded /\ [][NextLinks]_vars

\* ------------------------------------------------------------------ claims on link codes
UnusedCodesOf(student_id) ==
    {c \in link_codes : c.student_id = student_id /\ ~c.is_used}

\* C10: after admin_generate_link_code was called twice in sequence for the
\* same student exactly one unused link code exists for that student and a
\* redemption attempt with the first code fails; in every state reached by
\* issue and redeem operations a student has at most one unused code.
C10_ReissueInvalidatesFirst ==
    /\ \A i \in DOMAIN hist : Cardinality(UnusedCodesOf(i)) <= 1
    /\ \A i \in DOMAIN hist :
           Len(hist[i]) >= 2 =>
               /\ Cardinality(UnusedCodesOf(i)) = 1
               /\ ~\E c \in link_codes : c.code = hist[i][1] /\ ~c.is_used


\* The last step redeemed the code it names: the row of the code went from
\* unused to used and the association of the redeeming parent with the
\* code's student was added, both in one step.
Redeemed(c) ==
    /\ c \in link_codes /\ ~c.is_used
    /\ req'.kind = "redeem" /\ req'.code = c.code /\ outcome' = "linked"
    /\ link_codes' = (link_codes \ {c}) \cup {[c EXCEPT !.is_used = TRUE]}
    /\ <<req'.parent_id, c.student_id>> \notin parent_student
    /\ parent_student' = parent_student \cup {<<req'.parent_id, c.student_id>>}

\* C11: a link code moves only from unused to used.  A successful redemption
\* adds the parent-student association and sets the code to used in the same
\* commit, never one without the other; a used code never becomes unused
\* again, and every later redemption attempt with it fails and changes
\* nothing.
C11_CodeOneWay ==
    [][/\ \A c \in link_codes : c.is_used => c \in link_codes'
       /\ (\/ parent_student' # parent_student
           \/ \E c \in link_codes : ~c.is_used /\ c \notin link_codes'
           \/ (outcome' = "linked" /\ (req' # req \/ outcome # "linked")))
          => \E c \in link_codes : Redeemed(c)
       /\ (/\ req'.kind = "redeem"
           /\ \E c \in link_codes : c.code = req'.code /\ c.is_used)
          => /\ outcome' \notin {"linked"}
             /\ link_codes' = link_codes
             /\ parent_student' = parent_student]_vars

\* A parent of the student's school typed a code that another parent of the
\* school had redeemed, and was turned away; the first parent's link stands.
C11_Witness ==
    /\ req.kind = "redeem" /\ outcome = "invalid_code"
    /\ \E c \in link_codes :
           /\ c.code = req.code /\ c.is_used
           /\ \E q \in parents :
                  /\ q.id # req.parent_id /\ q.school_id = req.school_id
                  /\ <<q.id, c.student_id>> \in parent_student
           /\ <<req.parent_id, c.student_id>> \notin parent_student

\* The school of a parent profile and of a student, by id.
SchoolOfParent(parent_id) == (CHOOSE q \in parents : q.id = parent_id).school_id
SchoolOfStudent(student_id) == (CHOOSE x \in students : x.id = student_id).school_id

\* C12: when a parent redeems an unused code whose student belongs to another
\* school than the parent, the redemption is rejected and nothing changes: the
\* code stays unused and no association is added.  So every parent-student
\* association of every reachable state joins a parent and a student of the
\* same school.
C12_NoCrossSchoolLink ==
    [][/\ \A pair \in parent_student' :
              SchoolOfParent(pair[1]) = SchoolOfStudent(pair[2])
       /\ (/\ req'.kind = "redeem"
           /\ \E c \in link_codes :
                  /\ c.code = req'.code /\ ~c.is_used
                  /\ SchoolOfStudent(c.student_id) # SchoolOfParent(req'.parent_id))
          => /\ outcome' = "other_school"
             /\ link_codes' = link_codes
             /\ parent_student' = parent_student]_vars

\* The parent of school 2 typed the unused code of the student of school 1
\* and was refused, while school 2's own student has been linked.
C12_Witness ==
    /\ req.kind = "redeem" /\ outcome = "other_school"
    /\ SchoolOfParent(req.parent_id) = 2
    /\ \E c \in link_codes :
           c.code = req.code /\ ~c.is_used /\ SchoolOfStudent(c.student_id) = 1
    /\ parent_student = {<<2, 2>>}

\* C13: the outcome a parent observes when redeeming a code is the same for a
\* code that was already used and for a code that never existed: the one
\* generic failure message and an unchanged state.
C13_UsedLikeUnknown ==
    [][(/\ req'.kind = "redeem"
        /\ LinkFormValid(req'.code)
        /\ ~\E c \in link_codes : c.code = req'.code /\ ~c.is_used)
       => /\ outcome' = "invalid_code"
          /\ link_codes' = link_codes
          /\ parent_student' = parent_student]_vars

\* A parent typed a code that had been redeemed by the other parent of the
\* school, while a code that was never generated can still be typed.
C13_Witness ==
    /\ req.kind = "redeem" /\ outcome = "invalid_code"
    /\ \E c \in link_codes : c.code = req.code /\ c.is_used
    /\ \E k \in CodePool : LinkFormValid(k) /\ ~\E c \in link_codes : c.code = k
    /\ parent_student # {} /\ <<req.parent_id, 1>> \notin parent_student

\* ------------------------------------------------------------------ cohorts
\* A database with students of many admission years: school 1 admitted one
\* student of each year of Cohort1 in that order, school 2 those of Cohort2,
\* all through the student form, after the three parents had registered.
Cohort1 == <<2019, 2020, 2021, 2022, 2023, 2024, 2025, 2026, 2027>>
Cohort2 == <<2022, 2025>>
T_stu == <<"s", "t", "u">>

CohortStudent(k, year, seq, school_id) ==
    [id |-> k, full_name |-> T_Ann,
     admission_number |->
         generate_admission_number(BeforeFirst(SchoolById(school_id).school_code, "@"),
                                   seq, LastTwo(IntToStr(year))),
     admission_year |-> year, user_id |-> 8 + k, school_id |-> school_id]
CohortStudents ==
    {CohortStudent(k, Cohort1[k], k, 1) : k \in 1..Len(Cohort1)} \cup
    {CohortStudent(Len(Cohort1) + k, Cohort2[k], k, 2) : k \in 1..Len(Cohort2)}
CohortParentUsers ==
    {[id |-> 6, username |-> T_par1, role |-> "parent", school_id |-> 1],
     [id |-> 7, username |-> T_par2, role |-> "parent", school_id |-> 2],
     [id |-> 8, username |-> T_par3, role |-> "parent", school_id |-> 1]}
CohortParents ==
    {[id |-> 1, user_id |-> 6, school_id |-> 1],
     [id |-> 2, user_id |-> 7, school_id |-> 2],
     [id |-> 3, user_id |-> 8, school_id |-> 1]}
CohortUsers ==
    InitUsers \cup CohortParentUsers \cup
    {[id |-> x.user_id, username |-> T_stu \o IntToStr(x.id), role |-> "student",
      school_id |-> x.school_id] : x \in CohortStudents}

InitCohorts ==
    /\ schools = InitSchools
    /\ users = CohortUsers
    /\ students = CohortStudents
    /\ teachers = InitTeachers
    /\ parents = CohortParents
    /\ subjects = SeedSubjects
    /\ grades = {}
    /\ attendance = {}
    /\ link_codes = {}
    /\ parent_student = {}
    /\ session = EmptySession
    /\ imp = IdleImp
    /\ outcome = "none"
    /\ nreq = 0
    /\ req = NoRequest
    /\ hist = [i \in {x.id : x \in CohortStudents} |-> <<>>]

\* The years date.today().year takes while the application runs.
ClockYears == 2024..2029

\* A form that grows with the years without a ceiling.
formUncapped(admission_year, current_year) ==
    (current_year - admission_year) + 1

\* models.py:106-116, Student.form, for the year date.today() is in
form(admission_year, current_year) ==
    LET calculated_form == (current_year - admission_year) + 1
    IN IF calculated_form <= 4 THEN calculated_form ELSE 4

\* A read of student.form in the year current_year (templates, analytics).
ReadForm(student, current_year) ==
    /\ Quiet /\ AttendanceIdle
    /\ req' = [kind |-> "form", pc |-> "done", student_id |-> student.id,
               current_year |-> current_year,
               form |-> form(student.admission_year, current_year)]
    /\ outcome' = "read"
    /\ UNCHANGED <<tables, session, imp, nreq, hist>>

\* app.py:498-499: the students of the school whose admission_year equals
\* (current_year - form_num) + 1
RosterQuery(school_id, form_num, current_year) ==
    LET required_admission_year == (current_year - form_num) + 1
    IN {x \in students : /\ x.school_id = school_id
                         /\ x.admission_year = required_admission_year}

\* app.py:495-502, GET of teacher_attendance_roster by the teacher user u in
\* the year current_year.
teacher_attendance_roster_get(u, form_num, current_year) ==
    /\ Quiet /\ AttendanceIdle
    /\ req' = [kind |-> "roster", pc |-> "done", user_id |-> u.id,
               school_id |-> u.school_id, form_num |-> form_num,
               current_year |-> current_year,
               students |-> RosterQuery(u.school_id, form_num, current_year)]
    /\ outcome' = "roster"
    /\ UNCHANGED <<tables, session, imp, nreq, hist>>

FormNumPool == 1..4

NextCohorts ==
    \/ \E x \in students, current_year \in ClockYears : ReadForm(x, current_year)
    \/ \E u \in TeacherUsers, form_num \in FormNumPool, current_year \in ClockYears :
           teacher_attendance_roster_get(u, form_num, current_year)

SpecCohorts == InitCohorts /\ [][NextCohorts]_vars

\* ------------------------------------------------------------------ claims on the derived form
MinOf(a, b) == IF a <= b THEN a ELSE b
StudentById(student_id) == CHOOSE x \in students : x.id = student_id

\* C14: for every admission year y and current year c, Student.form equals
\* min(4, c - y + 1); it does not increase as y increases; and it is computed
\* on each read from the stored admission year, no student row stores it.
C14_FormIsCappedDifference ==
    /\ \A x \in students : \A c \in ClockYears :
           /\ form(x.admission_year, c) = MinOf(4, c - x.admission_year + 1)
           /\ \A z \in students :
                  x.admission_year <= z.admission_year =>
                      form(x.admission_year, c) >= form(z.admission_year, c)
    /\ \A x \in students : DOMAIN x = {"id", "full_name", "admission_number",
                                       "admission_year", "user_id", "school_id"}
    /\ req.kind = "form" =>
           /\ req.form = MinOf(4, req.current_year
                                   - StudentById(req.student_id).admission_year + 1)
           /\ students = CohortStudents

\* The student admitted in 2019 was read in 2029: eleven years, form 4.
C14_Witness ==
    /\ req.kind = "form" /\ req.current_year = 2029
    /\ StudentById(req.student_id).admission_year = 2019
    /\ req.form = 4

\* C18: the roster that teacher_attendance_roster returns for a form F is
\* exactly the set of students of the teacher's school whose derived form
\* (Student.form) equals F, for every F in 1..4 and every admission year.
C18_RosterIsDerivedForm ==
    req.kind = "roster" =>
        req.students =
            {x \in students : /\ x.school_id = req.school_id
                              /\ form(x.admission_year, req.current_year)
                                     = req.form_num}

\* C28: for every student the form or the import accepts (admission year in
\* 2000..2100) and every current year the derived form is one of 1, 2, 3, 4,
\* and the student is in the roster of exactly one form.
C28_FormIsOneToFour ==
    /\ \A x \in students :
           MinYear <= x.admission_year /\ x.admission_year <= MaxYear
    /\ req.kind = "form" =>
           LET x == StudentById(req.student_id)
           IN /\ req.form \in 1..4
              /\ Cardinality({F \in FormNumPool :
                      x \in RosterQuery(x.school_id, F, req.current_year)}) = 1

\* ------------------------------------------------------------------ requests that overlap
\* The development server answers each request in a thread of its own, so a
\* student form can be posted while another one, or an import, is running.
\* SQLite admits one writing transaction at a time: a transaction holds the
\* write lock from its first INSERT (the flush) to its commit or rollback and
\* a second writer waits for it; reads outside a transaction see the
\* committed rows.
\*
\* req.slots holds the student forms in flight: pc is "idle", "validated"
\* (validate_on_submit() returned True, nothing written yet) or "done".
NoForm == [full_name |-> <<>>, admission_year |-> 0, username |-> <<>>,
           password |-> <<>>]
IdleSlot == [pc |-> "idle", f |-> NoForm, school_id |-> 0, seq |-> 0,
             outcome |-> "none"]
Slots == 1..2

\* The running import has flushed rows and so holds the write lock.
ImportHoldsLock == session.users # {} \/ session.students # {}

\* app.py:345-346: the form is validated against the committed rows.
admin_manage_students_validate(i, f, school_id) ==
    /\ req.kind = "creates"
    /\ req.slots[i].pc \in {"idle", "done"}
    /\ \A j \in Slots : j < i => req.slots[j].pc = "validated"
    /\ nreq < MaxRequests
    /\ nreq' = nreq + 1
    /\ IF StudentFormValid(f)
       THEN /\ req' = [req EXCEPT !.slots[i] =
                           [pc |-> "validated", f |-> f, school_id |-> school_id,
                            seq |-> 0, outcome |-> "pending"]]
            /\ UNCHANGED outcome
       ELSE /\ req' = [req EXCEPT !.slots[i] =
                           [pc |-> "done", f |-> f, school_id |-> school_id,
                            seq |-> 0, outcome |-> "invalid_form"]]
            /\ outcome' = "invalid_form"
    /\ UNCHANGED <<tables, session, imp, hist>>

\* app.py:347-360: the flush of the user takes the write lock, the students
\* of the school are counted under it, and the commit inserts the student.
\* An IntegrityError of either INSERT reaches the except, which rolls back.
admin_manage_students_write(i) ==
    /\ req.kind = "creates"
    /\ req.slots[i].pc = "validated"
    /\ ~ImportHoldsLock
    /\ LET f == req.slots[i].f
           school_id == req.slots[i].school_id
           new_user == [id |-> NextId(users), username |-> f.username,
                        role |-> "student", school_id |-> school_id]
           student_count ==
               Cardinality({x \in students : x.school_id = school_id}) + 1
           school_code_base == BeforeFirst(SchoolById(school_id).school_code, "@")
           adm_num == generate_admission_number(school_code_base, student_count,
                          LastTwo(IntToStr(f.admission_year)))
           new_student == NewStudent(f.full_name, adm_num, f.admission_year,
                                     new_user.id, school_id)
       IN IF UserInsertRaises(new_user, users)
          THEN /\ req' = [req EXCEPT !.slots[i].pc = "done",
                                     !.slots[i].outcome = "create_error"]
               /\ outcome' = "create_error"
               /\ UNCHANGED <<users, students>>
          ELSE IF StudentInsertRaises(new_student, students)
          THEN /\ req' = [req EXCEPT !.slots[i].pc = "done",
                                     !.slots[i].seq = student_count,
                                     !.slots[i].outcome = "create_error"]
               /\ outcome' = "create_error"
               /\ UNCHANGED <<users, students>>
          ELSE /\ req' = [req EXCEPT !.slots[i].pc = "done",
                                     !.slots[i].seq = student_count,
                                     !.slots[i].outcome = "created"]
               /\ outcome' = "created"
               /\ users' = users \cup {new_user}
               /\ students' = InsertStudents({new_student}, students)
    /\ UNCHANGED <<schools, teachers, parents, subjects, grades, attendance,
                   link_codes, parent_student, session, imp, nreq, hist>>

\* The rows and forms of the overlapping requests.
RaceRowPool ==
    { StudentRow(Cell(T_Ann), Cell(2024), Cell(T_ann1), Cell(T_secret1)),
      StudentRow(Cell(T_Ann), Cell(2005), Cell(T_bea1pad), Cell(T_secret1)),
      StudentRow(Cell(T_Bea), Cell(2024), Cell(T_cyd1), Cell(T_secret2)) }
RaceFormPool ==
    {[full_name |-> r.FullName.v, admission_year |-> r.AdmissionYear.v,
      username |-> r.LoginUsername.v, password |-> r.InitialPassword.v] :
        r \in RaceRowPool}

InitRace ==
    /\ schools = InitSchools
    /\ users = InitUsers
    /\ students = {}
    /\ teachers = InitTeachers
    /\ parents = {}
    /\ subjects = {}
    /\ grades = {}
    /\ attendance = {}
    /\ link_codes = {}
    /\ parent_student = {}
    /\ session = EmptySession
    /\ imp = IdleImp
    /\ outcome = "none"
    /\ nreq = 0
    /\ req = [kind |-> "creates", pc |-> "done", slots |-> [i \in Slots |-> IdleSlot]]
    /\ hist = <<>>

\* An import step leaves the forms in flight alone; a form step leaves the
\* import alone.
NextRace ==
    \/ \E school_id \in SchoolIds : StudentUploadBegin(TRUE, school_id)
    \/ \E row \in RaceRowPool : StudentUploadRow(row)
    \/ StudentUploadCommit
    \/ \E i \in Slots, f \in RaceFormPool, school_id \in SchoolIds :
           admin_manage_students_validate(i, f, school_id)
    \/ \E i \in Slots : admin_manage_students_write(i)

SpecRace == InitRace /\ [][NextRace]_vars

\* ------------------------------------------------------------------ claims on overlapping requests
\* The sequence number in the admission number of a persisted student.
SeqOf(x) ==
    SeqField(x.admission_number,
             BeforeFirst(SchoolById(x.school_id).school_code, "@"))

\* The running import was rolled back at its commit because one of its
\* admission numbers had been given to a student of the same school that
\* was created while the import ran.
ImportLostTheRace ==
    /\ imp.kind = "students" /\ imp.pc = "error" /\ imp.file.cols
    /\ \E k \in 1..Len(imp.accepted) : \E x \in students \ imp.before[3] :
           x.admission_number = imp.accepted[k].adm /\ x.school_id = imp.school_id

\* C15: admission-number assignment is serialized per school: under any
\* interleaving of two student-creation requests for the same school (two
\* student forms, or a form and an import) the two never compute the same
\* sequence number, so no two students of a school carry the same sequence
\* number and no request is rolled back because of the other.
C15_SequenceSerialized ==
    /\ \A x, z \in students :
           (x.school_id = z.school_id /\ SeqOf(x) = SeqOf(z)) => x = z
    /\ ~ImportLostTheRace

\* C16: in every reachable state, after any interleaving of single-student
\* creations and student imports in any schools, no two persisted students
\* have the same admission number.
C16_AdmissionNumbersUnique ==
    \A x, z \in students : x.admission_number = z.admission_number => x = z

\* An import and a form of the same school computed the same admission
\* number; the form committed first and the import's commit was refused.
C16_Witness ==
    /\ ImportLostTheRace
    /\ \E i \in Slots : /\ req.slots[i].outcome = "created"
                        /\ req.slots[i].school_id = imp.school_id
                        /\ \E k \in 1..Len(imp.accepted) :
                               imp.accepted[k].seq = req.slots[i].seq

\* ------------------------------------------------------------------ claims on attendance batches
\* The status the batch of the request r gives the student: that of the last
\* entry that names it.
LastStatusIn(r, student_id) ==
    (CHOOSE e \in r.last : e.student_id = student_id).status
NamedIn(r) == {e.student_id : e \in r.last}

\* The step commits an attendance batch.
BatchSaved ==
    /\ req.kind = "attendance" /\ req.pc = "loop"
    /\ req'.pc = "done" /\ outcome' = "saved"

\* C17: after any sequence of attendance batch submissions at most one
\* Attendance row exists for each (student, date), and its status and its
\* recording teacher are those of the most recent saved submission that named
\* the student for that date: a saved batch leaves exactly that in the rows
\* it names and does not touch the other rows, and nothing else writes
\* Attendance rows.
C17_OneRowPerStudentAndDate ==
    [][/\ \A a, b \in attendance' :
              (a.student_id = b.student_id /\ a.date = b.date) => a = b
       /\ BatchSaved =>
              /\ \A k \in NamedIn(req) :
                     \E a \in attendance' :
                         /\ a.student_id = k /\ a.date = req.date
                         /\ a.status = LastStatusIn(req, k)
                         /\ a.teacher_id = req.teacher_id
              /\ \A a \in attendance :
                     (a.student_id \notin NamedIn(req) \/ a.date # req.date)
                         => a \in attendance'
              /\ \A a \in attendance' :
                     a \in attendance
                     \/ (a.student_id \in NamedIn(req) /\ a.date = req.date)
       /\ ~BatchSaved => attendance' = attendance]_vars

\* Teacher 3 saved a batch for 6 January 2025 whose two items both name
\* student 1, the last one with Late: one row, Late, by teacher 3.  The
\* row teacher 1 had saved for 7 January stands.
C17_Witness ==
    /\ req.kind = "attendance" /\ req.pc = "done" /\ outcome = "saved"
    /\ req.teacher_id = 3 /\ req.date = <<2025, 1, 6>>
    /\ req.n = 2 /\ req.last = {[student_id |-> 1, status |-> "Late"]}
    /\ attendance =
           {[id |-> 1, date |-> <<2025, 1, 7>>, status |-> "Present",
             student_id |-> 1, teacher_id |-> 1],
            [id |-> 2, date |-> <<2025, 1, 6>>, status |-> "Late",
             student_id |-> 1, teacher_id |-> 3]}

\* ------------------------------------------------------------------ reading grades
\* models.py:69, current_user.student_profile
StudentProfile(u) == CHOOSE s \in students : s.user_id = u.id

\* Student.query.get_or_404(student_id): the rows with that primary key.
GetStudent(student_id) == {s \in students : s.id = student_id}

\* The terms in the order ORDER BY Grade.term gives them.
TermsInOrder == <<"Term 1 2025", "Term 2 2025", "Term 3 2025">>

RECURSIVE SumMarks(_)
SumMarks(gs) ==
    IF gs = {} THEN 0
    ELSE LET g == CHOOSE x \in gs : TRUE IN g.marks + SumMarks(gs \ {g})

\* analytics.py:27, round(average_marks, 2) of AVG(marks), kept in hundredths
\* of a mark.
AverageMarks(gs) == (200 * SumMarks(gs) + Cardinality(gs)) \div (2 * Cardinality(gs))

\* analytics.py:8-32, get_student_grade_trend: one point per term the student
\* has a grade in, in the order of the terms.
get_student_grade_trend(student_id) ==
    LET of_term(t) == {g \in grades : g.student_id = student_id /\ g.term = t}
        labels == SelectSeq(TermsInOrder, LAMBDA t : of_term(t) # {})
    IN [labels |-> labels,
        data |-> [i \in 1..Len(labels) |-> AverageMarks(of_term(labels[i]))]]

NoData == [labels |-> <<>>, data |-> <<>>]

\* app.py:567, 569-570 and 583-585, the checks on who is asking: a student reads
\* only its own record, a parent only those of its linked children.
OwnOrChild(u, student) ==
    /\ u.role = "student" => StudentProfile(u).id = student.id
    /\ u.role = "parent" => <<ParentProfile(u).id, student.id>> \in parent_student

\* app.py:568, the school check of download_report_card.
OwnSchool(u, student) ==
    u.role \in {"teacher", "school_admin"} => u.school_id = student.school_id

\* app.py:579-587, GET /api/analytics/student_trend/<student_id> by the
\* logged-in user u.
api_student_trend(u, student_id) ==
    LET found == GetStudent(student_id)
    IN /\ Quiet
       /\ IF found = {}
          THEN /\ outcome' = "not_found"
               /\ req' = [kind |-> "trend", pc |-> "done", user_id |-> u.id,
                          student_id |-> student_id, data |-> NoData]
          ELSE IF ~OwnOrChild(u, First(found))
          THEN /\ outcome' = "forbidden"
               /\ req' = [kind |-> "trend", pc |-> "done", user_id |-> u.id,
                          student_id |-> student_id, data |-> NoData]
          ELSE /\ outcome' = "data"
               /\ req' = [kind |-> "trend", pc |-> "done", user_id |-> u.id,
                          student_id |-> student_id,
                          data |-> get_student_grade_trend(student_id)]
       /\ UNCHANGED <<tables, session, imp, nreq, hist>>

\* app.py:563-577, GET /report/pdf/<student_id>/<term> by the logged-in user
\* u.  The report is made of the student's grades of the term
\* (pdf_generator.py:9); without any the user is sent back with a notice.
download_report_card(u, student_id, term) ==
    LET found == GetStudent(student_id)
        term_grades == {g \in grades : g.student_id = student_id /\ g.term = term}
    IN /\ Quiet
       /\ IF found = {}
          THEN /\ outcome' = "not_found"
               /\ req' = [kind |-> "report", pc |-> "done", user_id |-> u.id,
                          student_id |-> student_id, term |-> term, data |-> {}]
          ELSE IF ~(OwnOrChild(u, First(found)) /\ OwnSchool(u, First(found)))
          THEN /\ outcome' = "forbidden"
               /\ req' = [kind |-> "report", pc |-> "done", user_id |-> u.id,
                          student_id |-> student_id, term |-> term, data |-> {}]
          ELSE /\ outcome' = IF term_grades = {} THEN "no_grades" ELSE "pdf"
               /\ req' = [kind |-> "report", pc |-> "done", user_id |-> u.id,
                          student_id |-> student_id, term |-> term,
                          data |-> term_grades]
       /\ UNCHANGED <<tables, session, imp, nreq, hist>>

\* Who asks: the admin and a teacher of school 1, a teacher of school 2, the
\* student of school 1 and a parent of school 1.
ReaderPool == {u \in users : u.id \in {1, 3, 4, 6, 8}}

\* Grades are entered by teachers and read by every kind of user.
NextReads ==
    \/ NextGrades
    \/ \E u \in ReaderPool, student_id \in IssueIdPool :
           api_student_trend(u, student_id)
    \/ \E u \in ReaderPool, student_id \in IssueIdPool, term \in TermPool :
           download_report_card(u, student_id, term)

SpecReads == InitSeeded /\ [][NextReads]_vars

\* ------------------------------------------------------------------ claims on reading grades
\* The user who made the last request.
Reader == CHOOSE u \in users : u.id = req.user_id

\* The last request was a read, by a teacher or school admin, of a student of
\* another school.
ForeignRead ==
    /\ req.kind \in {"trend", "report"}
    /\ Reader.role \in {"teacher", "school_admin"}
    /\ \E s \in students : s.id = req.student_id /\ s.school_id # Reader.school_id

\* C19: a teacher or school admin who asks for the grade trend or the report
\* card of a student of another school is refused and receives none of the
\* student's data.
C19_ReadsStayInSchool ==
    ForeignRead =>
        /\ outcome = "forbidden"
        /\ IF req.kind = "trend" THEN req.data = NoData ELSE req.data = {}

\* ------------------------------------------------------------------ accounts
T_root == <<"r", "o", "o", "t">>

\* app.py:121-130, SchoolRegistrationForm.validate(): DataRequired and Length
\* on every field, validate_school_code and validate_admin_username.
SchoolFormValid(f) ==
    /\ Len(Strip(f.school_name)) > 0 /\ Len(f.school_name) >= 3
    /\ Len(Strip(f.school_code)) > 0 /\ Len(f.school_code) >= 3
    /\ Len(Strip(f.admin_username)) > 0 /\ Len(f.admin_username) >= 4
    /\ Len(f.admin_password) >= MinPasswordLen
    /\ ~\E x \in schools : x.school_code = f.school_code
    /\ ~\E u \in users : u.username = f.admin_username

\* The forms the super admin posts: the cells of the pool's rows, as typed.
SchoolFormPool ==
    {[school_name |-> r.SchoolName.v, school_code |-> r.SchoolCode.v,
      admin_username |-> r.AdminUsername.v, admin_password |-> r.AdminPassword.v] :
        r \in {x \in SchoolRowPool : ~IsNa(x.SchoolName)}}

\* app.py:277-290, POST of the school registration form: the school is added
\* and flushed, its admin user is added, and both are committed.  Nothing
\* else is added for the admin.
super_admin_dashboard(f) ==
    /\ Quiet
    /\ nreq < MaxRequests
    /\ nreq' = nreq + 1
    /\ IF ~SchoolFormValid(f)
       THEN /\ outcome' = "invalid_form"
            /\ UNCHANGED <<schools, users>>
       ELSE LET new_school == [id |-> NextId(schools), school_code |-> f.school_code]
                admin_user == [id |-> NextId(users), username |-> f.admin_username,
                               role |-> "school_admin", school_id |-> new_school.id]
            IN IF \/ SchoolInsertRaises(new_school, schools)
                  \/ UserInsertRaises(admin_user, users)
               THEN /\ outcome' = "create_error"
                    /\ UNCHANGED <<schools, users>>
               ELSE /\ outcome' = "created"
                    /\ schools' = schools \cup {new_school}
                    /\ users' = users \cup {admin_user}
    /\ imp' = IdleImp
    /\ UNCHANGED <<students, teachers, parents, subjects, grades, attendance,
                   link_codes, parent_student, session, req, hist>>

\* app.py:154-161, ParentRegistrationForm.validate().
ParentFormValid(f) ==
    /\ Len(Strip(f.full_name)) > 0 /\ Len(f.full_name) >= 3
    /\ Len(Strip(f.username)) > 0 /\ Len(f.username) >= 4
    /\ Len(f.password) >= MinPasswordLen
    /\ Len(f.password2) > 0 /\ f.password2 = f.password
    /\ ~\E u \in users : u.username = f.username

ParentFormPool ==
    {[full_name |-> T_Ann, username |-> T_par1, password |-> T_secret1,
      password2 |-> T_secret1],
     [full_name |-> T_Bea, username |-> T_adm3, password |-> T_secret2,
      password2 |-> T_secret2],
     [full_name |-> T_Bea, username |-> T_par2, password |-> T_secret1,
      password2 |-> T_secret2]}

\* app.py:202-223, POST of parent_register by a visitor who is not logged in:
\* the user is added and flushed, the parent profile is added with the user's
\* id, and both are committed.
parent_register(school_code, f) ==
    LET found == {x \in schools : x.school_code = school_code}
    IN /\ Quiet
       /\ nreq < MaxRequests
       /\ nreq' = nreq + 1
       /\ IF found = {}
          THEN /\ outcome' = "not_found"
               /\ UNCHANGED <<users, parents>>
          ELSE IF ~ParentFormValid(f)
          THEN /\ outcome' = "invalid_form"
               /\ UNCHANGED <<users, parents>>
          ELSE LET school == First(found)
                   new_user == [id |-> NextId(users), username |-> f.username,
                                role |-> "parent", school_id |-> school.id]
                   new_parent == [id |-> NextId(parents), user_id |-> new_user.id,
                                  school_id |-> school.id]
               IN IF UserInsertRaises(new_user, users)
                  THEN /\ outcome' = "create_error"
                       /\ UNCHANGED <<users, parents>>
                  ELSE /\ outcome' = "registered"
                       /\ users' = users \cup {new_user}
                       /\ parents' = parents \cup {new_parent}
       /\ imp' = IdleImp
       /\ UNCHANGED <<schools, students, teachers, subjects, grades, attendance,
                      link_codes, parent_student, session, req, hist>>

\* The database of a new installation that holds the super admin only.
InitAccounts ==
    /\ schools = {}
    /\ users = {[id |-> 1, username |-> T_root, role |-> "super_admin",
                 school_id |-> 0]}
    /\ students = {}
    /\ teachers = {}
    /\ parents = {}
    /\ subjects = {}
    /\ grades = {}
    /\ attendance = {}
    /\ link_codes = {}
    /\ parent_student = {}
    /\ session = EmptySession
    /\ imp = IdleImp
    /\ outcome = "none"
    /\ nreq = 0
    /\ req = NoRequest
    /\ hist = <<>>

SchoolCodePool == {T_GHS3, T_GHS1}

\* Every path that creates a user.
NextAccounts ==
    \/ \E f \in SchoolFormPool : super_admin_dashboard(f)
    \/ NextSchools
    \/ \E f \in StudentFormPool, school_id \in SchoolIds :
           admin_manage_students(f, school_id)
    \/ \E cols \in BOOLEAN, school_id \in SchoolIds :
           StudentUploadBegin(cols, school_id)
    \/ \E row \in StudentRowPool : StudentUploadRow(row)
    \/ StudentUploadCommit
    \/ \E school_code \in SchoolCodePool, f \in ParentFormPool :
           parent_register(school_code, f)

SpecAccounts == InitAccounts /\ [][NextAccounts]_vars

\* ------------------------------------------------------------------ claims on accounts
\* The role-specific profiles of a user (models.py:69-71), each with the table
\* it is a row of.
ProfilesOf(u) ==
    {<<"student", x.id>> : x \in {y \in students : y.user_id = u.id}} \cup
    {<<"teacher", x.id>> : x \in {y \in teachers : y.user_id = u.id}} \cup
    {<<"parent", x.id>> : x \in {y \in parents : y.user_id = u.id}}

\* C20: every committed user whose role is not super admin has exactly one
\* role-specific profile, whichever path created it.
C20_EveryUserHasItsProfile ==
    \A u \in users : u.role # "super_admin" => Cardinality(ProfilesOf(u)) = 1

\* ------------------------------------------------------------------ marks
\* The marks teachers type: the ends of the documented range, their
\* neighbours and values outside it.
WideMarksPool == {-5, 0, 1, 100, 101, 150}
WideGradeFormPool ==
    [student_admission : {T_GHS_00001_24, T_GHS_00001_05},
     subject_id : SubjectIdPool, term : {"Term 1 2025"}, marks : WideMarksPool]

NextMarks ==
    \E u \in TeacherUsers, f \in WideGradeFormPool : teacher_dashboard(u, f)

SpecMarks == InitSeeded /\ [][NextMarks]_vars

\* The last request was a grade form that names a student and a subject of
\* the teacher's school and a term of the list, whatever its marks.
GradeFormFineButMarks ==
    /\ req.kind = "grade"
    /\ GradeFormValid([req.form EXCEPT !.marks = 50], req.school_id)
    /\ \E s \in students : /\ s.admission_number = req.form.student_admission
                           /\ s.school_id = req.school_id

\* C22: every stored grade has marks in 0..100; a submission with marks
\* outside 0..100 is rejected and one with marks inside 0..100, 0 and 100
\* included, is accepted.
C22_MarksWithinRange ==
    /\ \A g \in grades : 0 <= g.marks /\ g.marks <= 100
    /\ GradeFormFineButMarks =>
           IF req.form.marks \in 0..100
           THEN outcome \in {"submitted", "updated"}
           ELSE outcome = "invalid_form"

\* ------------------------------------------------------------------ grade forms that overlap
\* Two teachers post the grade form at the same time, each request in its own
\* thread.  The lookup of the existing grade is a SELECT and takes no lock; the
\* INSERT or UPDATE and the commit of one request run under SQLite's write
\* lock, one request after the other.  req.slots holds the forms in flight:
\* pc is "idle", "looked_up" (existing_grade was read, nothing written yet) or
\* "done"; existing is the id of existing_grade, 0 for None.
NoGradeForm == [student_admission |-> <<>>, subject_id |-> 0, term |-> "",
                marks |-> 0]
IdleGradeSlot == [pc |-> "idle", f |-> NoGradeForm, teacher_id |-> 0,
                  student_id |-> 0, existing |-> 0, outcome |-> "none"]

\* app.py:442-449: validation, the lookup of the student in the teacher's
\* school and the lookup of the existing grade.
teacher_dashboard_lookup(i, u, f) ==
    LET found == FindStudent(f.student_admission, u.school_id)
        slot(pc, student_id, existing, result) ==
            [pc |-> pc, f |-> f, teacher_id |-> TeacherProfile(u).id,
             student_id |-> student_id, existing |-> existing, outcome |-> result]
    IN /\ req.kind = "grade_posts"
       /\ req.slots[i].pc \in {"idle", "done"}
       /\ \A j \in Slots : j < i => req.slots[j].pc = "looked_up"
       /\ nreq < MaxRequests
       /\ nreq' = nreq + 1
       /\ IF ~GradeFormValid(f, u.school_id)
          THEN /\ req' = [req EXCEPT !.slots[i] = slot("done", 0, 0, "invalid_form")]
               /\ outcome' = "invalid_form"
          ELSE IF found = {}
          THEN /\ req' = [req EXCEPT !.slots[i] = slot("done", 0, 0, "not_found")]
               /\ outcome' = "not_found"
          ELSE LET student == First(found)
                   existing_grade == {g \in grades : /\ g.student_id = student.id
                                                     /\ g.subject_id = f.subject_id
                                                     /\ g.term = f.term}
               IN /\ req' = [req EXCEPT !.slots[i] =
                                slot("looked_up", student.id,
                                     IF existing_grade = {} THEN 0
                                     ELSE First(existing_grade).id, "pending")]
                  /\ UNCHANGED outcome
       /\ UNCHANGED <<tables, session, imp, hist>>

\* app.py:450-456: the row read earlier is overwritten, or a new row is added
\* when none was read, and the session is committed.  No column of grade but
\* id is unique (models.py:173-185), so the INSERT cannot raise.
teacher_dashboard_write(i) ==
    LET sl == req.slots[i]
        f == sl.f
        letter == calculate_grade_letter(f.marks)
    IN /\ req.kind = "grade_posts"
       /\ sl.pc = "looked_up"
       /\ IF sl.existing # 0
          THEN /\ grades' =
                    {IF g.id = sl.existing
                     THEN [g EXCEPT !.marks = f.marks, !.grade_letter = letter,
                                    !.teacher_id = sl.teacher_id]
                     ELSE g : g \in grades}
               /\ outcome' = "updated"
               /\ req' = [req EXCEPT !.slots[i].pc = "done",
                                     !.slots[i].outcome = "updated"]
          ELSE /\ grades' = grades \cup
                    {[id |-> NextId(grades), marks |-> f.marks,
                      grade_letter |-> letter, term |-> f.term,
                      student_id |-> sl.student_id, subject_id |-> f.subject_id,
                      teacher_id |-> sl.teacher_id]}
               /\ outcome' = "submitted"
               /\ req' = [req EXCEPT !.slots[i].pc = "done",
                                     !.slots[i].outcome = "submitted"]
       /\ UNCHANGED <<schools, users, students, teachers, parents, subjects,
                      attendance, link_codes, parent_student, session, imp, nreq,
                      hist>>

RaceGradeFormPool ==
    [student_admission : {T_GHS_00001_24, T_GHS_00009_24},
     subject_id : {1}, term : TermPool, marks : {0, 49, 92}]

InitGradeRace ==
    /\ schools = InitSchools
    /\ users = SeedUsers \cup SeedParentUsers
    /\ students = SeedStudents
    /\ teachers = InitTeachers
    /\ parents = SeedParents
    /\ subjects = SeedSubjects
    /\ grades = {}
    /\ attendance = {}
    /\ link_codes = {}
    /\ parent_student = {}
    /\ session = EmptySession
    /\ imp = IdleImp
    /\ outcome = "none"
    /\ nreq = 0
    /\ req = [kind |-> "grade_posts", pc |-> "done",
              slots |-> [i \in Slots |-> IdleGradeSlot]]
    /\ hist = [i \in {x.id : x \in SeedStudents} |-> <<>>]

NextGradeRace ==
    \/ \E i \in Slots, u \in TeacherUsers, f \in RaceGradeFormPool :
           teacher_dashboard_lookup(i, u, f)
    \/ \E i \in Slots : teacher_dashboard_write(i)

SpecGradeRace == InitGradeRace /\ [][NextGradeRace]_vars

\* C23: at most one grade exists per (student, subject, term), also when two
\* grade forms for the same triple, posted by two teachers of the school,
\* both look the existing grade up before either commits.
C23_OneGradePerTriple ==
    \A g, h \in grades :
        (/\ g.student_id = h.student_id
         /\ g.subject_id = h.subject_id
         /\ g.term = h.term) => g = h

\* ------------------------------------------------------------------ class distribution
\* models.py:23-29, the name of the GradeLetter member with the given value.
GradeLetterName(letter) == IF letter = "A+" THEN "AP" ELSE letter

\* analytics.py:49, grade.grade_letter.name.replace("AP", "A+")
DistributionKey(letter) ==
    LET name == GradeLetterName(letter) IN IF name = "AP" THEN "A+" ELSE name

\* analytics.py:45-47, the keys of the distribution
DistributionLetters == {"A+", "A", "B", "C", "D", "F"}

\* analytics.py:41, Student.form == form.  form is a plain Python property
\* (models.py:106), not a column: read on the class it is the property object
\* itself, which is equal to no number, so the comparison is the constant
\* False and the query filters on it.
ClassFormEquals(form_num) == FALSE

\* analytics.py:34-59, get_class_grade_distribution(school_id, form).
get_class_grade_distribution(school_id, form_num) ==
    LET rows == {g \in grades :
                    \E x \in students : /\ x.id = g.student_id
                                        /\ x.school_id = school_id
                                        /\ ClassFormEquals(form_num)}
    IN [l \in DistributionLetters |->
           Cardinality({g \in rows : DistributionKey(g.grade_letter) = l})]

\* app.py:589-594, GET /api/analytics/class_distribution/<form_num> by the
\* school admin u, in the year current_year.
api_class_distribution(u, form_num, current_year) ==
    /\ Quiet
    /\ req' = [kind |-> "distribution", pc |-> "done", user_id |-> u.id,
               school_id |-> u.school_id, form_num |-> form_num,
               current_year |-> current_year,
               data |-> get_class_grade_distribution(u.school_id, form_num)]
    /\ outcome' = "data"
    /\ UNCHANGED <<tables, session, imp, nreq, hist>>

DistributionYears == {2025, 2026}

NextDistribution ==
    \/ NextGrades
    \/ \E u \in AdminUsers, form_num \in FormNumPool,
          current_year \in DistributionYears :
           api_class_distribution(u, form_num, current_year)

SpecDistribution == InitSeeded /\ [][NextDistribution]_vars

\* C24: get_class_grade_distribution(school, form) gives, for each letter,
\* the number of grades with that letter of the students of the school whose
\* derived form is the given form.
C24_DistributionCountsForm ==
    req.kind = "distribution" =>
        \A l \in DistributionLetters :
            req.data[l] =
                Cardinality({g \in grades :
                    /\ g.grade_letter = l
                    /\ \E x \in students :
                           /\ x.id = g.student_id
                           /\ x.school_id = req.school_id
                           /\ form(x.admission_year, req.current_year)
                                  = req.form_num})

\* ------------------------------------------------------------------ redemptions that overlap
\* Two parents post the link form at the same time.  The lookup of the unused
\* code is a SELECT and takes no lock; the INSERT of the association, the
\* UPDATE of the code and the commit of one request run under SQLite's write
\* lock, one request after the other.  req.slots holds the forms in flight:
\* pc is "idle", "looked_up" (link_code_obj was read, nothing written yet) or
\* "done"; link_code_id is the id of link_code_obj.
IdleLinkSlot == [pc |-> "idle", code |-> 0, parent_id |-> 0, link_code_id |-> 0,
                 student_id |-> 0, outcome |-> "none"]

\* app.py:546-554: validation, the lookup of the unused code and the school
\* check.
parent_link_student_lookup(i, u, code) ==
    LET parent == ParentProfile(u)
        found == FindLinkCode(code)
        slot(pc, link_code_id, student_id, result) ==
            [pc |-> pc, code |-> code, parent_id |-> parent.id,
             link_code_id |-> link_code_id, student_id |-> student_id,
             outcome |-> result]
    IN /\ req.kind = "redeems"
       /\ req.slots[i].pc \in {"idle", "done"}
       /\ \A j \in Slots : j < i => req.slots[j].pc = "looked_up"
       /\ nreq < MaxRequests
       /\ nreq' = nreq + 1
       /\ IF ~LinkFormValid(code)
          THEN /\ req' = [req EXCEPT !.slots[i] = slot("done", 0, 0, "invalid_form")]
               /\ outcome' = "invalid_form"
          ELSE IF found = {}
          THEN /\ req' = [req EXCEPT !.slots[i] = slot("done", 0, 0, "invalid_code")]
               /\ outcome' = "invalid_code"
          ELSE LET link_code_obj == First(found)
                   student == CHOOSE x \in students : x.id = link_code_obj.student_id
               IN IF ~SameSchool(student, parent)
                  THEN /\ req' = [req EXCEPT !.slots[i] =
                                     slot("done", link_code_obj.id, student.id,
                                          "other_school")]
                       /\ outcome' = "other_school"
                  ELSE /\ req' = [req EXCEPT !.slots[i] =
                                     slot("looked_up", link_code_obj.id, student.id,
                                          "pending")]
                       /\ UNCHANGED outcome
       /\ UNCHANGED <<tables, session, imp, hist>>

\* app.py:555: the association of the parent with the student is inserted,
\* the code read earlier is set to used, and the session is committed.  The
\* association's primary key is (parent_id, student_id) (models.py:39-42): the
\* INSERT raises only when this parent is linked to the student already, and
\* then the request ends with the rollback of the error handler.
parent_link_student_write(i) ==
    LET sl == req.slots[i]
    IN /\ req.kind = "redeems"
       /\ sl.pc = "looked_up"
       /\ IF <<sl.parent_id, sl.student_id>> \in parent_student
          THEN /\ outcome' = "500"
               /\ req' = [req EXCEPT !.slots[i].pc = "done",
                                     !.slots[i].outcome = "500"]
               /\ UNCHANGED <<link_codes, parent_student>>
          ELSE /\ outcome' = "linked"
               /\ req' = [req EXCEPT !.slots[i].pc = "done",
                                     !.slots[i].outcome = "linked"]
               /\ parent_student' = parent_student \cup
                                        {<<sl.parent_id, sl.student_id>>}
               /\ link_codes' = {IF c.id = sl.link_code_id THEN MarkUsed(c) ELSE c :
                                    c \in link_codes}
       /\ UNCHANGED <<schools, users, students, teachers, parents, subjects,
                      grades, attendance, session, imp, nreq, hist>>

\* The populated database after each admin generated the link code of the
\* student of its school: code 1 for student 1, code 2 for student 2.
InitLinkRace ==
    /\ schools = InitSchools
    /\ users = SeedUsers \cup SeedParentUsers
    /\ students = SeedStudents
    /\ teachers = InitTeachers
    /\ parents = SeedParents
    /\ subjects = SeedSubjects
    /\ grades = {}
    /\ attendance = {}
    /\ link_codes = {[id |-> 1, code |-> 1, is_used |-> FALSE, student_id |-> 1],
                     [id |-> 2, code |-> 2, is_used |-> FALSE, student_id |-> 2]}
    /\ parent_student = {}
    /\ session = EmptySession
    /\ imp = IdleImp
    /\ outcome = "none"
    /\ nreq = 0
    /\ req = [kind |-> "redeems", pc |-> "done",
              slots |-> [i \in Slots |-> IdleLinkSlot]]
    /\ hist = (1 :> <<1>>) @@ (2 :> <<2>>)

NextLinkRace ==
    \/ \E i \in Slots, u \in ParentUsers, code \in CodePool :
           parent_link_student_lookup(i, u, code)
    \/ \E i \in Slots : parent_link_student_write(i)

SpecLinkRace == InitLinkRace /\ [][NextLinkRace]_vars

\* C27: a link code produces at most one parent-student association over its
\* whole life, also when two parents of the student's school redeem it at the
\* same time.  Every student here has one code for life, so the associations
\* of the code are those of its student.
C27_CodeLinksOnce ==
    \A c \in link_codes :
        Cardinality({a \in parent_student : a[2] = c.student_id}) <= 1

\* ------------------------------------------------------------------ claims on failed attendance batches
\* C30: an attendance batch is all-or-nothing.  While a batch is read no
\* Attendance row is created or changed; the step on which the batch fails (a
\* text that is no status, a date that does not parse) leaves the table as it
\* was, also for the entries read before the failing one; the table changes
\* only on the commit of a batch that was read to its end.
C30_BatchAllOrNothing ==
    [][/\ (req'.kind = "attendance" /\ outcome' = "error") =>
              attendance' = attendance
       /\ (req'.kind = "attendance" /\ req'.pc = "loop") =>
              attendance' = attendance
       /\ attendance' # attendance =>
              /\ req.kind = "attendance" /\ req.pc = "loop"
              /\ req'.pc = "done" /\ outcome' = "saved"]_vars

\* Teacher 1 posted a batch for 6 January 2025 whose first item marks
\* student 1 Present and whose second item carries the text Holiday: the
\* request failed and no row exists.
C30_Witness ==
    /\ req.kind = "attendance" /\ req.pc = "done" /\ outcome = "error"
    /\ req.date = <<2025, 1, 6>> /\ req.teacher_id = 1
    /\ req.n = 2
    /\ req.last = {[student_id |-> 1, status |-> "Present"],
                   [student_id |-> 2, status |-> "Holiday"]}
    /\ attendance = {}

====
